---- MODULE Spec2Model ----
(***************************************************************************)
(* Slot reservation, post assignment and booking lifecycle of the          *)
(* detailing-studio bot (app/services/schedule_service.py,                 *)
(* app/services/booking_service.py and the handlers that call them).       *)
(*                                                                         *)
(* Time is counted in minutes of local (configured timezone) wall clock    *)
(* since 00:00 of the Monday of a reference week; the timezone has a fixed *)
(* offset, so combine_local and astimezone are the identity on this axis.  *)
(* A calendar date is the day index t \div (24*60); its weekday() is the   *)
(* index modulo 7 (0 = Monday).                                            *)
(*                                                                         *)
(* Every update is handled by its own task with its own AsyncSession       *)
(* (DbSessionMiddleware), so handlers interleave at every awaited store    *)
(* statement.  One action below is one awaited statement of one session;   *)
(* consecutive statements that only read are taken as one step.            *)
(* Each statement reads the latest committed store (READ COMMITTED).       *)
(* SELECT ... FOR UPDATE locks exactly the rows it returns until the       *)
(* session's transaction ends; it waits while one of them is locked by     *)
(* another session, as does an UPDATE of a locked row.                     *)
(***************************************************************************)
EXTENDS Integers, Sequences, FiniteSets, TLC

(***************************************************************************)
(* Bounds of the model.                                                    *)
(***************************************************************************)
MaxBookings == 2
MaxBlocks == 1
MaxPosts == 2
MaxUpdates == 2
MaxMissed == 2

(***************************************************************************)
(* Time axis.                                                              *)
(***************************************************************************)
MinutesPerDay == 24 * 60

At(day, hour, minute) == day * MinutesPerDay + hour * 60 + minute

TimeOfDay(hour, minute) == hour * 60 + minute

DateOf(t) == t \div MinutesPerDay

Weekday(day) == day % 7

\* combine_local(day, hour_minute, tz)
combine_local(day, hour_minute) == day * MinutesPerDay + hour_minute

\* Start times a request may carry (booking_ts, callback_data.ts), all on
\* the Tuesday of the reference week.  The services accept any instant.
Starts == {At(1, 10, 0), At(1, 10, 30), At(1, 11, 0), At(1, 23, 30)}

\* Closures an administrator may enter: <<start, hours>>.
BlockChoices == {<<At(1, 11, 0), 1>>}

(***************************************************************************)
(* Catalogue rows (services, car_types).  Money is kept in hundredths, the *)
(* multiplier Numeric(6, 2) in hundredths as well.                         *)
(***************************************************************************)
ServiceRow(duration, price) == [duration_minutes |-> duration, base_price |-> price]

\* The catalogue the model starts with: one service of 60 minutes at
\* 3500.00, one car type with multiplier 1.20.
Services == <<ServiceRow(60, 350000)>>

CarTypes == <<[price_multiplier |-> 120]>>

\* The quantize with rounding=ROUND_HALF_DOWN: a tie goes down.
calculate_price_half_down(base_price, multiplier) ==
    (base_price * multiplier + 49) \div 100

\* Decimal.quantize(Decimal("0.01"), rounding=ROUND_HALF_UP) of the exact
\* product: base (1e-2) times multiplier (1e-2) is in units of 1e-4.
calculate_price(base_price, multiplier) == (base_price * multiplier + 50) \div 100

(***************************************************************************)
(* work_schedule rows.                                                     *)
(***************************************************************************)
ScheduleRow(dow, start_time, end_time, active) ==
    [day_of_week |-> dow, start_time |-> start_time, end_time |-> end_time,
     is_active |-> active]

\* ensure_default_schedule: the seven rows seeded into an empty table.
DefaultSchedule ==
    [d \in 1..7 |->
        IF d - 1 < 5
        THEN ScheduleRow(d - 1, TimeOfDay(0, 0), TimeOfDay(23, 59), TRUE)
        ELSE ScheduleRow(d - 1, TimeOfDay(9, 0), TimeOfDay(23, 0), TRUE)]

VARIABLES
    max_posts,      \* ScheduleService.max_posts (Settings.max_posts)
    services,       \* table services, row id = index
    car_types,      \* table car_types, row id = index
    work_schedule,  \* table work_schedule, row id = index
    blocked_slots,  \* table blocked_slots, row id = index
    bookings,       \* table bookings, row id = index
    booking_admin_notes, \* table booking_admin_notes, as a set of rows
    pc,             \* per session: the statement it will execute next
    op,             \* per session: the handler's local variables
    locks,          \* per session: booking rows it holds FOR UPDATE
    sweep,          \* the reminder job: its position, clock reading and marks
    denied,         \* history: <<start, duration>> that is_slot_available refused
    updates         \* history: number of updates (handler runs) started so far

vars == <<max_posts, services, car_types, work_schedule, blocked_slots,
          bookings, booking_admin_notes,
          pc, op, locks, sweep, denied, updates>>

Sessions == 1..MaxUpdates

(***************************************************************************)
(* Rows and handler-local records.                                         *)
(***************************************************************************)
\* Python's None where an id or a post number is expected.
None == 0

CONFIRMED == "confirmed"

CANCELLED == "cancelled"
COMPLETED == "completed"
NO_SHOW == "no_show"

BookingRow(user, service, car, post, start, end, price) ==
    [user_id |-> user, service_id |-> service, car_type_id |-> car,
     post_id |-> post, booking_start |-> start, booking_end |-> end,
     final_price |-> price, status |-> CONFIRMED,
     reminder_24h_sent |-> FALSE, reminder_2h_sent |-> FALSE]

BlockedSlotRow(start, end) ==
    [start_datetime |-> start, end_datetime |-> end, is_active |-> TRUE]

\* get_day_window's None, as a record of the same shape as a window.
NoWindow == [ok |-> FALSE, day_start |-> 0, day_end |-> 0]

IdleOp ==
    [kind |-> "none", start |-> 0, duration |-> 0, car |-> None, bid |-> None,
     loaded |-> <<>>, n |-> 0, post |-> None,
     pre |-> {}, conc |-> {}, seen |-> 0, denied |-> FALSE,
     day |-> 0, now |-> 0, window |-> NoWindow, slots |-> <<>>, days |-> <<>>,
     service |-> ServiceRow(0, 0), car_type |-> [price_multiplier |-> 0]]

MaxOf(S) == CHOOSE x \in S : \A y \in S : y <= x

(***************************************************************************)
(* ScheduleService: the queries, as functions of the committed store.      *)
(***************************************************************************)
\* get_day_window with the end time taken as it is: 23:59 stays 23:59.
get_day_window_literal_end(day) ==
    LET day_of_week == Weekday(day)
        rules == {i \in DOMAIN work_schedule :
                    /\ work_schedule[i].day_of_week = day_of_week
                    /\ work_schedule[i].is_active}
        start_time == IF rules = {}
                      THEN (IF day_of_week < 5 THEN TimeOfDay(0, 0) ELSE TimeOfDay(9, 0))
                      ELSE work_schedule[MaxOf(rules)].start_time
        end_time == IF rules = {}
                    THEN (IF day_of_week < 5 THEN TimeOfDay(23, 59) ELSE TimeOfDay(23, 0))
                    ELSE work_schedule[MaxOf(rules)].end_time
        start_dt == combine_local(day, start_time)
        end_dt == combine_local(day, end_time)
    IN  IF end_dt <= start_dt
        THEN NoWindow
        ELSE [ok |-> TRUE, day_start |-> start_dt, day_end |-> end_dt]

\* get_day_window without its last test: the pair is returned as computed.
get_day_window_unguarded(day) ==
    LET day_of_week == Weekday(day)
        rules == {i \in DOMAIN work_schedule :
                    /\ work_schedule[i].day_of_week = day_of_week
                    /\ work_schedule[i].is_active}
        start_time == IF rules = {}
                      THEN (IF day_of_week < 5 THEN TimeOfDay(0, 0) ELSE TimeOfDay(9, 0))
                      ELSE work_schedule[MaxOf(rules)].start_time
        end_time == IF rules = {}
                    THEN (IF day_of_week < 5 THEN TimeOfDay(23, 59) ELSE TimeOfDay(23, 0))
                    ELSE work_schedule[MaxOf(rules)].end_time
        start_dt == combine_local(day, start_time)
        end_dt == IF end_time = TimeOfDay(23, 59)
                  THEN combine_local(day + 1, TimeOfDay(0, 0))
                  ELSE combine_local(day, end_time)
    IN  [ok |-> TRUE, day_start |-> start_dt, day_end |-> end_dt]

\* get_day_window: the active rule with the largest id for the weekday, else
\* the built-in fallback; a 23:59 close means 00:00 of the next day.
get_day_window(day) ==
    LET day_of_week == Weekday(day)
        rules == {i \in DOMAIN work_schedule :
                    /\ work_schedule[i].day_of_week = day_of_week
                    /\ work_schedule[i].is_active}
        start_time == IF rules = {}
                      THEN (IF day_of_week < 5 THEN TimeOfDay(0, 0) ELSE TimeOfDay(9, 0))
                      ELSE work_schedule[MaxOf(rules)].start_time
        end_time == IF rules = {}
                    THEN (IF day_of_week < 5 THEN TimeOfDay(23, 59) ELSE TimeOfDay(23, 0))
                    ELSE work_schedule[MaxOf(rules)].end_time
        start_dt == combine_local(day, start_time)
        end_dt == IF end_time = TimeOfDay(23, 59)
                  THEN combine_local(day + 1, TimeOfDay(0, 0))
                  ELSE combine_local(day, end_time)
    IN  IF end_dt <= start_dt
        THEN NoWindow
        ELSE [ok |-> TRUE, day_start |-> start_dt, day_end |-> end_dt]

\* The WHERE clause without the status test: a cancelled row is returned.
OverlapsBooking_any_status(b, start, end) ==
    /\ b.booking_end > start
    /\ b.booking_start < end

\* The same with closed intervals: a row that ends at start is returned.
OverlapsBooking_closed(b, start, end) ==
    /\ b.status = CONFIRMED
    /\ b.booking_end >= start
    /\ b.booking_start <= end

\* The WHERE clause of get_overlapping_bookings on one row.
OverlapsBooking(b, start, end) ==
    /\ b.status = CONFIRMED
    /\ b.booking_end > start
    /\ b.booking_start < end

\* The query without its "Booking.id != exclude_booking_id" clause.
get_overlapping_bookings_unexcluded(start, end, exclude_booking_id) ==
    {i \in DOMAIN bookings : OverlapsBooking(bookings[i], start, end)}

\* get_overlapping_bookings: the ids of the rows the query returns.
get_overlapping_bookings(start, end, exclude_booking_id) ==
    {i \in DOMAIN bookings :
        /\ OverlapsBooking(bookings[i], start, end)
        /\ (exclude_booking_id # None => i # exclude_booking_id)}

\* The same with closed intervals: a block that starts at end is returned.
OverlapsBlock_closed(k, start, end) ==
    /\ k.is_active
    /\ k.end_datetime >= start
    /\ k.start_datetime <= end

\* The WHERE clause of get_active_blocks on one row.
OverlapsBlock(k, start, end) ==
    /\ k.is_active
    /\ k.end_datetime > start
    /\ k.start_datetime < end

\* The query returning only the blocks that start inside the interval.
get_active_blocks_started(start, end) ==
    {i \in DOMAIN blocked_slots :
        /\ blocked_slots[i].is_active
        /\ blocked_slots[i].start_datetime >= start
        /\ blocked_slots[i].start_datetime < end}

\* get_active_blocks: the ids of the rows the query returns.
get_active_blocks(start, end) ==
    {i \in DOMAIN blocked_slots : OverlapsBlock(blocked_slots[i], start, end)}

\* The window test with "end >= day_end": an interval that ends at the close
\* is refused.
WindowAndBlocksOk_before_close(start, duration_minutes) ==
    LET end == start + duration_minutes
        window == get_day_window(DateOf(start))
    IN  IF ~window.ok THEN FALSE
        ELSE IF start < window.day_start \/ end >= window.day_end THEN FALSE
        ELSE IF get_active_blocks(start, end) # {} THEN FALSE
        ELSE TRUE

\* is_slot_available up to its blocks query: window found, the interval
\* inside it, and no active block returned.
WindowAndBlocksOk(start, duration_minutes) ==
    LET end == start + duration_minutes
        window == get_day_window(DateOf(start))
    IN  IF ~window.ok THEN FALSE
        ELSE IF start < window.day_start \/ end > window.day_end THEN FALSE
        ELSE IF get_active_blocks(start, end) # {} THEN FALSE
        ELSE TRUE

\* is_slot_available's last statement: len(overlaps) < self.max_posts.
CapacityOk(start, duration_minutes, exclude_booking_id) ==
    Cardinality(get_overlapping_bookings(start, start + duration_minutes,
                                         exclude_booking_id)) < max_posts

\* is_slot_available evaluated on one store state.
is_slot_available(start, duration_minutes, exclude_booking_id) ==
    IF ~WindowAndBlocksOk(start, duration_minutes) THEN FALSE
    ELSE CapacityOk(start, duration_minutes, exclude_booking_id)

\* "limit: int | None = None": the None of the limit parameter.
NoLimit == -1

\* Python's truth value of limit: None and 0 are both false.
Truthy(limit) == limit # NoLimit /\ limit # 0

\* get_available_slots' loop: hourly cursors while the interval ends inside
\* the window; a cursor not before now is appended when is_slot_available
\* says so, and the loop is left when "limit and len(slots) >= limit".
RECURSIVE SlotsFrom(_, _, _, _, _, _, _)
SlotsFrom(cursor, day_end, duration_minutes, exclude_booking_id, limit, now, slots) ==
    IF cursor + duration_minutes > day_end THEN slots
    ELSE IF /\ cursor >= now
            /\ is_slot_available(cursor, duration_minutes, exclude_booking_id)
         THEN IF Truthy(limit) /\ Len(slots) + 1 >= limit
              THEN Append(slots, cursor)
              ELSE SlotsFrom(cursor + 60, day_end, duration_minutes,
                             exclude_booking_id, limit, now,
                             Append(slots, cursor))
         ELSE SlotsFrom(cursor + 60, day_end, duration_minutes,
                        exclude_booking_id, limit, now, slots)

\* get_available_slots: [] without a window; else the loop from the first
\* full hour that is not before the opening.
get_available_slots(day, duration_minutes, exclude_booking_id, limit, now) ==
    LET window == get_day_window(day)
        on_the_hour == window.day_start - (window.day_start % 60)
        cursor == IF on_the_hour < window.day_start THEN on_the_hour + 60
                  ELSE on_the_hour
    IN  IF ~window.ok THEN <<>>
        ELSE SlotsFrom(cursor, window.day_end, duration_minutes,
                       exclude_booking_id, limit, now, <<>>)

\* get_available_days' loop over range(horizon_days): the days for which
\* get_available_slots(..., limit=1) returns a slot.
RECURSIVE DaysFrom(_, _, _, _, _, _)
DaysFrom(start_day, offset, horizon_days, duration_minutes, exclude_booking_id, now) ==
    IF offset >= horizon_days THEN <<>>
    ELSE (IF get_available_slots(start_day + offset, duration_minutes,
                                 exclude_booking_id, 1, now) # <<>>
          THEN <<start_day + offset>> ELSE <<>>)
         \o DaysFrom(start_day, offset + 1, horizon_days, duration_minutes,
                     exclude_booking_id, now)

get_available_days(start_day, duration_minutes, horizon_days, exclude_booking_id, now) ==
    DaysFrom(start_day, 0, horizon_days, duration_minutes, exclude_booking_id,
             now)

\* assign_post_id's loop: for post_id in range(1, max_posts + 1).
RECURSIVE FirstUnused(_, _)
FirstUnused(post_id, used) ==
    IF post_id > max_posts THEN None
    ELSE IF post_id \notin used THEN post_id
    ELSE FirstUnused(post_id + 1, used)

\* The loop run downwards: the highest unused post.
assign_post_id_highest(overlaps) ==
    LET free == (1..max_posts) \ {bookings[i].post_id : i \in overlaps}
    IN  IF free = {} THEN None ELSE MaxOf(free)

\* assign_post_id on the rows its query returned.
assign_post_id(overlaps) ==
    FirstUnused(1, {bookings[i].post_id : i \in overlaps})

\* A FOR UPDATE query can return only when no row it returns is locked by
\* another session.
CanLock(p, rows) == \A q \in Sessions \ {p} : locks[q] \cap rows = {}


(***************************************************************************)
(* Initial state: the process has started (ensure_default_schedule has     *)
(* run), no update is being handled, the booking tables are empty.         *)
(***************************************************************************)
Init ==
    /\ max_posts \in 1..MaxPosts
    /\ services = Services
    /\ car_types = CarTypes
    /\ work_schedule = DefaultSchedule
    /\ blocked_slots = <<>>
    /\ bookings = <<>>
    /\ booking_admin_notes = {}
    /\ pc = [p \in Sessions |-> "idle"]
    /\ op = [p \in Sessions |-> IdleOp]
    /\ locks = [p \in Sessions |-> {}]
    /\ sweep = [pc |-> "idle", now |-> 0, selected |-> {},
                marked_24h |-> {}, marked_2h |-> {},
                instances |-> 0, pending |-> 0, missed |-> 0, refused |-> FALSE,
                failed_24h |-> {}, failed_2h |-> {},
                raised_24h |-> {}, raised_2h |-> {},
                delivered_24h |-> [b \in 1..MaxBookings |-> 0],
                delivered_2h |-> [b \in 1..MaxBookings |-> 0],
                runs |-> {}, first_run |-> [b \in 1..MaxBookings |-> 0]]
    /\ denied = {}
    /\ updates = 0

store == <<max_posts, services, car_types, work_schedule, blocked_slots, bookings,
          booking_admin_notes>>

\* Every update gets a session of its own from the session factory: the
\* update numbered u is handled in session u.
FreeSession(p) == p = updates + 1

\* A new update arrives and its handler starts.
NewUpdate == updates < MaxUpdates /\ updates' = updates + 1

\* Sessions between confirm_booking's advisory check and the end of
\* create_booking.
CreateCalls ==
    {q \in Sessions : pc[q] \in {"cb_isa", "cb_lock", "cb_blocks", "cb_assign",
                                 "cb_commit"}}

\* Sessions that have executed create_booking's first statement and have
\* not left the call.
InCreate ==
    {q \in Sessions : pc[q] \in {"cb_lock", "cb_blocks", "cb_assign", "cb_commit"}}

\* History kept when is_slot_available(start, duration) returns False.
Deny(start, duration) == denied \cup {<<start, duration>>}

\* History reset when a commit may free capacity (cancel, move, reopen).
ForgetDenials(o) == [q \in Sessions |-> [o[q] EXCEPT !.denied = FALSE]]

\* What a finished call keeps of its locals (for the properties below).
Outcome(o) == [IdleOp EXCEPT !.kind = o.kind, !.start = o.start,
                 !.duration = o.duration, !.car = o.car, !.bid = o.bid,
                 !.post = o.post, !.pre = o.pre, !.conc = o.conc,
                 !.seen = o.seen, !.denied = o.denied,
                 !.service = o.service, !.car_type = o.car_type]

(***************************************************************************)
(* confirm_booking (user.py lines 249-284): the advisory                   *)
(* is_slot_available call (its queries only read; they are one step).      *)
(* Not available: the handler answers "slot taken" and returns.            *)
(* Available: get_or_create_user, then create_booking is called.           *)
(***************************************************************************)
confirm_booking(p, start, car) ==
    /\ FreeSession(p)
    /\ Len(bookings) + Cardinality(CreateCalls) < MaxBookings
    /\ NewUpdate
    /\ LET duration == services[1].duration_minutes
       IN  IF is_slot_available(start, duration, None)
           THEN /\ op' = [op EXCEPT ![p] = [IdleOp EXCEPT !.kind = "create",
                             !.start = start, !.duration = duration, !.car = car,
                             !.service = services[1], !.car_type = car_types[car]]]
                /\ pc' = [pc EXCEPT ![p] = "cb_isa"]
                /\ UNCHANGED denied
           ELSE /\ denied' = Deny(start, duration)
                /\ pc' = [pc EXCEPT ![p] = "rejected"]
                /\ UNCHANGED <<op>>
    /\ UNCHANGED <<store, locks>>
    /\ UNCHANGED sweep

\* get_available_slots asks is_slot_available about a candidate start and
\* leaves the start out of its result when the answer is False.
is_slot_available_call(start) ==
    /\ ~is_slot_available(start, services[1].duration_minutes, None)
    /\ denied' = Deny(start, services[1].duration_minutes)
    /\ UNCHANGED <<store, pc, op, locks, sweep, updates>>

(***************************************************************************)
(* BookingService.create_booking.                                          *)
(***************************************************************************)
\* The method called by a caller that made no advisory check of its own.
create_booking_call(p, start, car) ==
    /\ FreeSession(p)
    /\ Len(bookings) + Cardinality(CreateCalls) < MaxBookings
    /\ NewUpdate
    /\ op' = [op EXCEPT ![p] = [IdleOp EXCEPT !.kind = "create", !.start = start,
                      !.duration = services[1].duration_minutes, !.car = car,
                      !.service = services[1], !.car_type = car_types[car]]]
    /\ pc' = [pc EXCEPT ![p] = "cb_isa"]
    /\ UNCHANGED <<store, locks, denied>>
    /\ UNCHANGED sweep

\* The test dropped: the call goes on whatever is_slot_available returned.
create_booking_in_schedule_unchecked(in_schedule) == "cb_lock"

\* What create_booking does with in_schedule (lines 61-63).
create_booking_in_schedule(in_schedule) ==
    IF ~in_schedule THEN "failed" ELSE "cb_lock"

\* in_schedule = is_slot_available(...).  The history fields record what
\* the store held when the call started.
cb_isa(p) ==
    /\ pc[p] = "cb_isa"
    /\ LET in_schedule == is_slot_available(op[p].start, op[p].duration, None)
       IN  /\ op' = [op EXCEPT ![p] = [@ EXCEPT
                        !.pre = get_overlapping_bookings(op[p].start,
                                    op[p].start + op[p].duration, None),
                        !.conc = InCreate,
                        !.seen = Len(bookings),
                        !.denied = <<op[p].start, op[p].duration>> \in denied]]
           /\ pc' = [pc EXCEPT ![p] = create_booking_in_schedule(in_schedule)]
           /\ denied' = IF in_schedule THEN denied
                        ELSE Deny(op[p].start, op[p].duration)
    /\ UNCHANGED <<store, locks, updates>>
    /\ UNCHANGED sweep

\* overlap = get_overlapping_bookings(..., for_update=True)
cb_lock(p) ==
    /\ pc[p] = "cb_lock"
    /\ LET overlap == get_overlapping_bookings(op[p].start,
                          op[p].start + op[p].duration, None)
       IN  /\ CanLock(p, overlap)
           /\ locks' = [locks EXCEPT ![p] = @ \cup overlap]
           /\ op' = [op EXCEPT ![p].n = Cardinality(overlap)]
    /\ pc' = [pc EXCEPT ![p] = "cb_blocks"]
    /\ UNCHANGED <<store, denied, updates>>
    /\ UNCHANGED sweep

\* The test "blocks or len(overlap) >= max_posts" (line 73).
create_booking_refused(blocks, n) == blocks # {} \/ n >= max_posts

\* blocks = get_active_blocks(...); raise if blocked or full.
cb_blocks(p) ==
    /\ pc[p] = "cb_blocks"
    /\ LET blocks == get_active_blocks(op[p].start, op[p].start + op[p].duration)
       IN  IF create_booking_refused(blocks, op[p].n)
           THEN /\ pc' = [pc EXCEPT ![p] = "failed"]
                /\ op' = [op EXCEPT ![p] = Outcome(@)]
           ELSE /\ pc' = [pc EXCEPT ![p] = "cb_assign"]
                /\ op' = [op EXCEPT ![p].n = 0]
    /\ UNCHANGED <<store, locks, denied, updates>>
    /\ UNCHANGED sweep

\* post_id = assign_post_id(..., for_update=True); raise if None.
cb_assign(p) ==
    /\ pc[p] = "cb_assign"
    /\ LET overlaps == get_overlapping_bookings(op[p].start,
                           op[p].start + op[p].duration, None)
           post_id == assign_post_id(overlaps)
       IN  /\ CanLock(p, overlaps)
           /\ locks' = [locks EXCEPT ![p] = @ \cup overlaps]
           /\ op' = [op EXCEPT ![p].post = post_id]
           /\ pc' = [pc EXCEPT ![p] = IF post_id = None THEN "failed" ELSE "cb_commit"]
    /\ UNCHANGED <<store, denied, updates>>
    /\ UNCHANGED sweep

\* user.id of the client (get_or_create_user).
ClientId == 1

\* The row built without final_price (left to a later statement).
NewBooking_unpriced(user, car, post_id, booking_start, service, car_type) ==
    BookingRow(user, 1, car, post_id, booking_start,
               booking_start + service.duration_minutes, None)

\* The row create_booking builds (lines 85-98).
NewBooking(user, car, post_id, booking_start, service, car_type) ==
    BookingRow(user, 1, car, post_id, booking_start,
               booking_start + service.duration_minutes,
               calculate_price(service.base_price, car_type.price_multiplier))

\* session.add(booking); commit: the row becomes visible, the locks go.
cb_commit(p) ==
    /\ pc[p] = "cb_commit"
    /\ bookings' = Append(bookings,
                     NewBooking(ClientId, op[p].car, op[p].post, op[p].start,
                                op[p].service, op[p].car_type))
    /\ op' = [op EXCEPT ![p] = [Outcome(@) EXCEPT !.bid = Len(bookings) + 1]]
    /\ locks' = [locks EXCEPT ![p] = {}]
    /\ pc' = [pc EXCEPT ![p] = "done"]
    /\ UNCHANGED <<max_posts, services, car_types, work_schedule,
                   blocked_slots, booking_admin_notes, denied, updates>>
    /\ UNCHANGED sweep

(***************************************************************************)
(* The handler of a failed call returns and the middleware closes the      *)
(* session: the open transaction is rolled back, its row locks released.   *)
(***************************************************************************)
close_session(p) ==
    /\ pc[p] = "failed"
    /\ locks[p] # {}
    /\ UNCHANGED <<pc, op>>
    /\ locks' = [locks EXCEPT ![p] = {}]
    /\ UNCHANGED <<store, denied, updates>>
    /\ UNCHANGED sweep

(***************************************************************************)
(* session.commit() of a loaded row: the unit of work writes a column only *)
(* when the attribute now differs from the value the session loaded.       *)
(***************************************************************************)
Written(current, loaded, value) == IF value # loaded THEN value ELSE current

(***************************************************************************)
(* move_booking_time (admin.py lines 959-984) and                          *)
(* BookingService.move_booking.                                            *)
(***************************************************************************)
\* move_booking_time with the attributes set before the availability test
\* and flushed when the call raises.
move_booking_time_sets_first(p, bid, new_start) ==
    /\ FreeSession(p)
    /\ bid \in DOMAIN bookings
    /\ NewUpdate
    /\ LET duration == services[bookings[bid].service_id].duration_minutes
           is_available == is_slot_available(new_start, duration, bid)
           call == [IdleOp EXCEPT !.kind = "move", !.start = new_start,
                      !.duration = duration, !.bid = bid]
       IN  IF ~is_available
           THEN /\ pc' = [pc EXCEPT ![p] = "failed"]
                /\ op' = [op EXCEPT ![p] = call]
                /\ bookings' = [bookings EXCEPT
                                   ![bid].booking_start = new_start,
                                   ![bid].booking_end = new_start + duration,
                                   ![bid].reminder_24h_sent = FALSE,
                                   ![bid].reminder_2h_sent = FALSE]
           ELSE /\ pc' = [pc EXCEPT ![p] = "mv_assign"]
                /\ op' = [op EXCEPT ![p] = [call EXCEPT !.loaded = <<bookings[bid]>>]]
                /\ UNCHANGED bookings
    /\ UNCHANGED <<max_posts, services, car_types, work_schedule,
                   blocked_slots, booking_admin_notes, locks, denied>>
    /\ UNCHANGED sweep

\* booking = get_booking(...) with no status test (the test is in
\* move_booking_selected, an earlier update of the same dialogue), then
\* move_booking's is_slot_available(..., exclude_booking_id=booking.id).
move_booking_time(p, bid, new_start) ==
    /\ FreeSession(p)
    /\ bid \in DOMAIN bookings
    /\ NewUpdate
    /\ LET duration == services[bookings[bid].service_id].duration_minutes
           is_available == is_slot_available(new_start, duration, bid)
           call == [IdleOp EXCEPT !.kind = "move", !.start = new_start,
                      !.duration = duration, !.bid = bid]
       IN  IF ~is_available
           THEN /\ pc' = [pc EXCEPT ![p] = "failed"]
                /\ op' = [op EXCEPT ![p] = call]
           ELSE /\ pc' = [pc EXCEPT ![p] = "mv_assign"]
                /\ op' = [op EXCEPT ![p] = [call EXCEPT !.loaded = <<bookings[bid]>>]]
    /\ UNCHANGED <<store, locks, denied>>
    /\ UNCHANGED sweep

\* post_id = assign_post_id(..., exclude_booking_id=booking.id, for_update=True)
mv_assign(p) ==
    /\ pc[p] = "mv_assign"
    /\ LET overlaps == get_overlapping_bookings(op[p].start,
                           op[p].start + op[p].duration, op[p].bid)
           post_id == assign_post_id(overlaps)
       IN  /\ CanLock(p, overlaps)
           /\ locks' = [locks EXCEPT ![p] = @ \cup overlaps]
           /\ IF post_id = None
              THEN /\ pc' = [pc EXCEPT ![p] = "failed"]
                   /\ op' = [op EXCEPT ![p] = Outcome(@)]
              ELSE /\ pc' = [pc EXCEPT ![p] = "mv_commit"]
                   /\ op' = [op EXCEPT ![p].post = post_id]
    /\ UNCHANGED <<store, denied, updates>>
    /\ UNCHANGED sweep

\* The attributes move_booking sets (lines 208-212), as flushed.
move_booking_row(row, loaded, new_start, new_end, post_id) ==
    [row EXCEPT
        !.booking_start = Written(@, loaded.booking_start, new_start),
        !.booking_end = Written(@, loaded.booking_end, new_end),
        !.post_id = Written(@, loaded.post_id, post_id),
        !.reminder_24h_sent = Written(@, loaded.reminder_24h_sent, FALSE),
        !.reminder_2h_sent = Written(@, loaded.reminder_2h_sent, FALSE)]

mv_commit(p) ==
    /\ pc[p] = "mv_commit"
    /\ LET bid == op[p].bid
           row == move_booking_row(bookings[bid], op[p].loaded[1], op[p].start,
                                   op[p].start + op[p].duration, op[p].post)
       IN  /\ row # bookings[bid] => CanLock(p, {bid})
           /\ bookings' = [bookings EXCEPT ![bid] = row]
    /\ locks' = [locks EXCEPT ![p] = {}]
    /\ pc' = [pc EXCEPT ![p] = "done"]
    /\ op' = [ForgetDenials(op) EXCEPT ![p] = Outcome(op[p])]
    /\ denied' = {}
    /\ UNCHANGED <<max_posts, services, car_types, work_schedule,
                   blocked_slots, booking_admin_notes, updates>>
    /\ UNCHANGED sweep

(***************************************************************************)
(* cancel_booking_action (admin.py lines 1003-1016) and                    *)
(* BookingService.cancel_booking.                                          *)
(***************************************************************************)
\* get_booking and the handler's status test; not Confirmed: it answers
\* "booking unavailable" and returns.
cancel_booking_action(p, bid) ==
    /\ FreeSession(p)
    /\ bid \in DOMAIN bookings
    /\ NewUpdate
    /\ IF bookings[bid].status # CONFIRMED
       THEN pc' = [pc EXCEPT ![p] = "rejected"] /\ UNCHANGED op
       ELSE /\ pc' = [pc EXCEPT ![p] = "cn_commit"]
            /\ op' = [op EXCEPT ![p] = [IdleOp EXCEPT !.kind = "cancel", !.bid = bid,
                                          !.loaded = <<bookings[bid]>>]]
    /\ UNCHANGED <<store, locks, denied>>
    /\ UNCHANGED sweep

\* The cancel flushed as an UPDATE of every column of the loaded object.
cancel_booking_row_whole(row, loaded) == [loaded EXCEPT !.status = CANCELLED]

\* booking.status = BookingStatus.CANCELLED, as flushed.
cancel_booking_row(row, loaded) ==
    [row EXCEPT !.status = Written(@, loaded.status, CANCELLED)]

cancel_booking(p) ==
    /\ pc[p] = "cn_commit"
    /\ LET bid == op[p].bid
           row == cancel_booking_row(bookings[bid], op[p].loaded[1])
       IN  /\ row # bookings[bid] => CanLock(p, {bid})
           /\ bookings' = [bookings EXCEPT ![bid] = row]
    /\ locks' = [locks EXCEPT ![p] = {}]
    /\ pc' = [pc EXCEPT ![p] = IF op[p].kind = "cancel" THEN "done" ELSE "cn_note"]
    /\ op' = [ForgetDenials(op) EXCEPT ![p] = Outcome(op[p])]
    /\ denied' = {}
    /\ UNCHANGED <<max_posts, services, car_types, work_schedule,
                   blocked_slots, booking_admin_notes, updates>>
    /\ UNCHANGED sweep

(***************************************************************************)
(* The two cancel paths of the booking card: booking_card_action_router,   *)
(* branch card_cancel_skip_ (admin.py lines 245-257), and                  *)
(* cancel_booking_with_reason (lines 338-374).  Both test the status of    *)
(* the booking they loaded, call cancel_booking and then add_admin_note,   *)
(* which commits a second time.                                            *)
(***************************************************************************)
CancelWithoutReason == "cancel_without_reason"
CancelWithReason == "cancel_with_reason"

BookingAdminNoteRow(booking_id, text) == [booking_id |-> booking_id, text |-> text]

card_cancel_skip(p, bid) ==
    /\ FreeSession(p)
    /\ bid \in DOMAIN bookings
    /\ NewUpdate
    /\ IF bookings[bid].status # CONFIRMED
       THEN pc' = [pc EXCEPT ![p] = "rejected"] /\ UNCHANGED op
       ELSE /\ pc' = [pc EXCEPT ![p] = "cn_commit"]
            /\ op' = [op EXCEPT ![p] = [IdleOp EXCEPT !.kind = CancelWithoutReason,
                                          !.bid = bid, !.loaded = <<bookings[bid]>>]]
    /\ UNCHANGED <<store, locks, denied>>
    /\ UNCHANGED sweep

cancel_booking_with_reason(p, bid) ==
    /\ FreeSession(p)
    /\ bid \in DOMAIN bookings
    /\ NewUpdate
    /\ IF bookings[bid].status # CONFIRMED
       THEN pc' = [pc EXCEPT ![p] = "rejected"] /\ UNCHANGED op
       ELSE /\ pc' = [pc EXCEPT ![p] = "cn_commit"]
            /\ op' = [op EXCEPT ![p] = [IdleOp EXCEPT !.kind = CancelWithReason,
                                          !.bid = bid, !.loaded = <<bookings[bid]>>]]
    /\ UNCHANGED <<store, locks, denied>>
    /\ UNCHANGED sweep

\* BookingService.add_admin_note: session.add(note); commit.
add_admin_note(p) ==
    /\ pc[p] = "cn_note"
    /\ booking_admin_notes' =
          booking_admin_notes \cup {BookingAdminNoteRow(op[p].bid, op[p].kind)}
    /\ pc' = [pc EXCEPT ![p] = "done"]
    /\ UNCHANGED <<max_posts, services, car_types, work_schedule,
                   blocked_slots, bookings, op, locks,
                   denied, updates>>
    /\ UNCHANGED sweep

(***************************************************************************)
(* ScheduleService.close_slot and reopen_slot: one commit each.            *)
(***************************************************************************)
\* close_slot that also cancels the Confirmed bookings inside the closure.
close_slot_cancelling(start, hours) ==
    /\ Len(blocked_slots) < MaxBlocks
    /\ NewUpdate
    /\ blocked_slots' = Append(blocked_slots, BlockedSlotRow(start, start + hours * 60))
    /\ bookings' = [b \in DOMAIN bookings |->
                       IF OverlapsBooking(bookings[b], start, start + hours * 60)
                       THEN [bookings[b] EXCEPT !.status = CANCELLED]
                       ELSE bookings[b]]
    /\ UNCHANGED <<max_posts, services, car_types, work_schedule,
                   booking_admin_notes, pc, op, locks, denied>>
    /\ UNCHANGED sweep

close_slot(start, hours) ==
    /\ Len(blocked_slots) < MaxBlocks
    /\ NewUpdate
    /\ blocked_slots' = Append(blocked_slots, BlockedSlotRow(start, start + hours * 60))
    /\ UNCHANGED <<max_posts, services, car_types, work_schedule, bookings,
                   booking_admin_notes, pc, op, locks, denied>>
    /\ UNCHANGED sweep

\* What reopen_slot returns: False when no row has the id, else True.
reopen_slot_returns(rows, block_id) == block_id \in DOMAIN rows

\* reopen_slot switching the flag over: an inactive block becomes active.
reopen_slot_rows_toggling(rows, block_id) ==
    IF block_id \in DOMAIN rows
    THEN [rows EXCEPT ![block_id].is_active = ~@]
    ELSE rows

\* The table after reopen_slot: block.is_active = False on the row found.
reopen_slot_rows(rows, block_id) ==
    IF block_id \in DOMAIN rows
    THEN [rows EXCEPT ![block_id].is_active = FALSE]
    ELSE rows

\* Returns False for an unknown id and changes nothing.
reopen_slot(block_id) ==
    /\ NewUpdate
    /\ blocked_slots' = reopen_slot_rows(blocked_slots, block_id)
    /\ op' = IF reopen_slot_returns(blocked_slots, block_id)
             THEN ForgetDenials(op) ELSE op
    /\ denied' = IF reopen_slot_returns(blocked_slots, block_id)
                 THEN {} ELSE denied
    /\ UNCHANGED <<max_posts, services, car_types, work_schedule, bookings,
                   booking_admin_notes, pc, locks>>
    /\ UNCHANGED sweep

(***************************************************************************)
(* The reminder job.  build_scheduler registers process_reminders with an  *)
(* interval trigger, max_instances=1 and coalesce=True.  The scheduler is  *)
(* APScheduler's: when it looks at the job, `missed` fire times are due;   *)
(* it submits the run times it keeps, unless max_instances runs are in     *)
(* progress, and then it logs the refusal and drops them.  A submission    *)
(* executes its run times one after another.  process_reminders works in a *)
(* session of its own: the query of a window, the sends of that window     *)
(* (they touch no table and are one step), then the next window, then the  *)
(* commit.  The flags set on the loaded rows reach the table with the      *)
(* commit at the latest and are visible to other sessions from the commit  *)
(* on.  The fields instances, pending and selected are the job's state;    *)
(* the other fields record what has happened: missed and refused belong to *)
(* the run in progress, failed_* to the latest sends of a window (the rows *)
(* whose send raised), raised_* and delivered_* to all runs, runs holds    *)
(* the clock readings of the runs and first_run, for each booking, the     *)
(* clock reading of the first run that began when the booking was in the   *)
(* table (0: none yet).                                                    *)
(***************************************************************************)
\* add_job with max_instances=2.
max_instances_two == 1 + 1

\* add_job(..., max_instances=1, ...).
max_instances == 1

\* add_job(..., trigger="interval", minutes=10, ...).
interval_minutes == 10

\* add_job(..., coalesce=True, ...).
coalesce == TRUE

\* The run times submitted with coalesce=False: every due fire time.
submitted_run_times_all(missed) == missed

\* The run times the scheduler submits when `missed` fire times are due.
submitted_run_times(missed) == IF coalesce THEN 1 ELSE missed

\* Clock readings (datetime.now) at which the job may run: 24 hours 10
\* minutes, 24 hours and 23 hours 50 minutes before 10:00 of the booking
\* date, and 2 hours before.
NowChoices == {At(0, 9, 50), At(0, 10, 0), At(0, 10, 10), At(1, 8, 0)}

\* _process_window's query with the end of the window included.
process_window_rows_closed_end(start, end, reminder_field) ==
    {i \in DOMAIN bookings :
        /\ bookings[i].status = CONFIRMED
        /\ bookings[i].booking_start >= start
        /\ bookings[i].booking_start <= end
        /\ bookings[i][reminder_field] = FALSE}

\* _process_window's query with the start of the window excluded.
process_window_rows_open_start(start, end, reminder_field) ==
    {i \in DOMAIN bookings :
        /\ bookings[i].status = CONFIRMED
        /\ bookings[i].booking_start > start
        /\ bookings[i].booking_start < end
        /\ bookings[i][reminder_field] = FALSE}

\* _process_window's query without the test of the reminder flag.
process_window_rows_any_flag(start, end, reminder_field) ==
    {i \in DOMAIN bookings :
        /\ bookings[i].status = CONFIRMED
        /\ bookings[i].booking_start >= start
        /\ bookings[i].booking_start < end}

\* The rows _process_window's query returns.
process_window_rows(start, end, reminder_field) ==
    {i \in DOMAIN bookings :
        /\ bookings[i].status = CONFIRMED
        /\ bookings[i].booking_start >= start
        /\ bookings[i].booking_start < end
        /\ bookings[i][reminder_field] = FALSE}

\* The loop of _process_window with the try around the whole loop: the
\* first send that raises ends it (rows in id order).
process_window_marked_aborting(rows, raised) ==
    {b \in rows : \A r \in raised \cap rows : b < r}

\* The rows whose flag the loop of _process_window sets: the try is inside
\* the loop, so every row is tried and the ones whose send raised are left.
process_window_marked(rows, raised) == rows \ raised

\* One more delivered reminder for each booking of `marked`.
Delivered(count, marked) ==
    [b \in DOMAIN count |-> IF b \in marked THEN count[b] + 1 ELSE count[b]]

\* The scheduler submits the job and process_reminders starts:
\* now = datetime.now() and the query of the 24-hour window.  While a
\* submission still has run times left, the next of them starts instead.
process_reminders(now, missed) ==
    /\ IF sweep.pending > 0
       THEN sweep.pc = "idle"
       ELSE sweep.instances < max_instances
    /\ now > sweep.now
    /\ sweep' = [sweep EXCEPT
          !.pc = "send_24h",
          !.now = now,
          !.selected = process_window_rows(now + 23 * 60 + 50, now + 24 * 60 + 10,
                                           "reminder_24h_sent"),
          !.marked_24h = {},
          !.marked_2h = {},
          !.instances = IF sweep.pending > 0 THEN @ ELSE @ + 1,
          !.pending = IF sweep.pending > 0 THEN @ - 1
                      ELSE submitted_run_times(missed) - 1,
          !.missed = IF sweep.pending > 0 THEN @ ELSE missed,
          !.refused = FALSE,
          !.first_run = [b \in DOMAIN @ |->
                            IF @[b] = 0 /\ b <= Len(bookings) THEN now ELSE @[b]],
          !.runs = @ \cup {now}]
    /\ UNCHANGED <<store, pc, op, locks, denied, updates>>

\* The scheduler finds the job due while max_instances runs are in
\* progress: the run times are dropped with a warning.
submit_job_refused ==
    /\ sweep.instances >= max_instances
    /\ ~sweep.refused
    /\ sweep' = [sweep EXCEPT !.refused = TRUE]
    /\ UNCHANGED <<store, pc, op, locks, denied, updates>>

\* The sends of the 24-hour window; raised: the rows whose send raised.
send_reminder_24h(raised) ==
    /\ sweep.pc = "send_24h"
    /\ raised \subseteq sweep.selected
    /\ LET marked == process_window_marked(sweep.selected, raised)
       IN  sweep' = [sweep EXCEPT
                !.pc = "window_2h",
                !.marked_24h = marked,
                !.failed_24h = raised,
                !.raised_24h = @ \cup raised,
                !.delivered_24h = Delivered(@, marked)]
    /\ UNCHANGED <<store, pc, op, locks, denied, updates>>

\* The query of the 2-hour window.
process_window_2h ==
    /\ sweep.pc = "window_2h"
    /\ sweep' = [sweep EXCEPT
          !.pc = "send_2h",
          !.selected = process_window_rows(sweep.now + 60 + 50,
                                           sweep.now + 2 * 60 + 10,
                                           "reminder_2h_sent")]
    /\ UNCHANGED <<store, pc, op, locks, denied, updates>>

\* The sends of the 2-hour window.
send_reminder_2h(raised) ==
    /\ sweep.pc = "send_2h"
    /\ raised \subseteq sweep.selected
    /\ LET marked == process_window_marked(sweep.selected, raised)
       IN  sweep' = [sweep EXCEPT
                !.pc = "commit",
                !.marked_2h = marked,
                !.failed_2h = raised,
                !.raised_2h = @ \cup raised,
                !.delivered_2h = Delivered(@, marked)]
    /\ UNCHANGED <<store, pc, op, locks, denied, updates>>

\* The flush with both flags written for a row marked in either window.
process_reminders_row_both(row, in_24h, in_2h) ==
    [row EXCEPT
        !.reminder_24h_sent = IF in_24h \/ in_2h THEN TRUE ELSE @,
        !.reminder_2h_sent = IF in_24h \/ in_2h THEN TRUE ELSE @]

\* The flags the job set on the rows it loaded (every one loaded as False),
\* as flushed.
process_reminders_row(row, in_24h, in_2h) ==
    [row EXCEPT
        !.reminder_24h_sent = IF in_24h THEN Written(@, FALSE, TRUE) ELSE @,
        !.reminder_2h_sent = IF in_2h THEN Written(@, FALSE, TRUE) ELSE @]

\* session.commit() at the end of process_reminders; the run is over.
process_reminders_commit ==
    /\ sweep.pc = "commit"
    /\ CanLock(None, sweep.marked_24h \cup sweep.marked_2h)
    /\ bookings' = [i \in DOMAIN bookings |->
                       process_reminders_row(bookings[i], i \in sweep.marked_24h,
                                             i \in sweep.marked_2h)]
    /\ sweep' = [sweep EXCEPT
          !.pc = "idle",
          !.selected = {},
          !.marked_24h = {},
          !.marked_2h = {},
          !.missed = 0,
          !.refused = FALSE,
          !.instances = IF sweep.pending > 0 THEN @ ELSE @ - 1]
    /\ UNCHANGED <<max_posts, services, car_types, work_schedule,
                   blocked_slots, booking_admin_notes, pc, op, locks, denied,
                   updates>>

(***************************************************************************)
(* The reservation engine under concurrent handlers.                       *)
(***************************************************************************)
Next ==
    \/ \E p \in Sessions, start \in Starts, car \in DOMAIN car_types :
            confirm_booking(p, start, car)
    \/ \E p \in Sessions : cb_isa(p)
    \/ \E p \in Sessions : cb_lock(p)
    \/ \E p \in Sessions : cb_blocks(p)
    \/ \E p \in Sessions : cb_assign(p)
    \/ \E p \in Sessions : cb_commit(p)
    \/ \E p \in Sessions, bid \in 1..MaxBookings, start \in Starts :
            move_booking_time(p, bid, start)
    \/ \E p \in Sessions : mv_assign(p)
    \/ \E p \in Sessions : mv_commit(p)
    \/ \E p \in Sessions, bid \in 1..MaxBookings : cancel_booking_action(p, bid)
    \/ \E p \in Sessions : cancel_booking(p)
    \/ \E c \in BlockChoices : close_slot(c[1], c[2])
    \/ \E block_id \in 1..MaxBlocks : reopen_slot(block_id)
    \/ \E p \in Sessions : close_session(p)

Spec == Init /\ [][Next]_vars

(***************************************************************************)
(* The same engine when the two services are also called directly:         *)
(* is_slot_available at any moment, create_booking with no check before.   *)
(***************************************************************************)
NextService ==
    \/ Next
    \/ \E start \in Starts : is_slot_available_call(start)
    \/ \E p \in Sessions, start \in Starts, car \in DOMAIN car_types :
            create_booking_call(p, start, car)

SpecService == Init /\ [][NextService]_vars

(***************************************************************************)
(* The engine together with the reminder job.                              *)
(***************************************************************************)
NextReminders ==
    \/ Next
    \/ \E now \in NowChoices, missed \in 1..MaxMissed :
            process_reminders(now, missed)
    \/ submit_job_refused
    \/ \E raised \in SUBSET (1..MaxBookings) : send_reminder_24h(raised)
    \/ process_window_2h
    \/ \E raised \in SUBSET (1..MaxBookings) : send_reminder_2h(raised)
    \/ process_reminders_commit

SpecReminders == Init /\ [][NextReminders]_vars

(***************************************************************************)
(* The life of a booking that exists: the engine with all three cancel     *)
(* paths, started in the state Spec reaches when the first booking (10:00  *)
(* of the booking date, post 1) has been made and its handler is over.     *)
(***************************************************************************)
InitBooked ==
    /\ max_posts \in 1..MaxPosts
    /\ services = Services
    /\ car_types = CarTypes
    /\ work_schedule = DefaultSchedule
    /\ blocked_slots = <<>>
    /\ bookings = <<NewBooking(ClientId, 1, 1, At(1, 10, 0),
                               Services[1], CarTypes[1])>>
    /\ booking_admin_notes = {}
    /\ pc = [p \in Sessions |-> "idle"]
    /\ op = [p \in Sessions |-> IdleOp]
    /\ locks = [p \in Sessions |-> {}]
    /\ sweep = [pc |-> "idle", now |-> 0, selected |-> {},
                marked_24h |-> {}, marked_2h |-> {},
                instances |-> 0, pending |-> 0, missed |-> 0, refused |-> FALSE,
                failed_24h |-> {}, failed_2h |-> {},
                raised_24h |-> {}, raised_2h |-> {},
                delivered_24h |-> [b \in 1..MaxBookings |-> 0],
                delivered_2h |-> [b \in 1..MaxBookings |-> 0],
                runs |-> {}, first_run |-> [b \in 1..MaxBookings |-> 0]]
    /\ denied = {}
    /\ updates = 0

NextLifecycle ==
    \/ Next
    \/ \E p \in Sessions, bid \in 1..MaxBookings : card_cancel_skip(p, bid)
    \/ \E p \in Sessions, bid \in 1..MaxBookings : cancel_booking_with_reason(p, bid)
    \/ \E p \in Sessions : add_admin_note(p)

SpecLifecycle == InitBooked /\ [][NextLifecycle]_vars

(***************************************************************************)
(* Moves and cancels of two bookings when a transaction may stall.  The    *)
(* initial state is the one Spec reaches when two bookings (10:00 and      *)
(* 11:00 of the booking date, post 1 each) have been made and their        *)
(* handlers are over.  A statement of a call that the store can answer is  *)
(* answered: the FOR UPDATE query of move_booking is taken whenever it     *)
(* stays enabled.  Nothing obliges a session to reach the end of its       *)
(* transaction: its commit may never come.  (With two bookings no call     *)
(* raises while it holds a lock.)  The engine is created by                *)
(* create_async_engine(database_url, future=True, echo=False); no          *)
(* statement sets a lock or statement timeout and with_for_update() has no *)
(* nowait, so a FOR UPDATE query waits for as long as a row is locked.     *)
(***************************************************************************)
InitTwoBooked ==
    /\ max_posts \in 1..MaxPosts
    /\ services = Services
    /\ car_types = CarTypes
    /\ work_schedule = DefaultSchedule
    /\ blocked_slots = <<>>
    /\ bookings = <<NewBooking(ClientId, 1, 1, At(1, 10, 0),
                               Services[1], CarTypes[1]),
                    NewBooking(ClientId, 1, 1, At(1, 11, 0),
                               Services[1], CarTypes[1])>>
    /\ booking_admin_notes = {}
    /\ pc = [p \in Sessions |-> "idle"]
    /\ op = [p \in Sessions |-> IdleOp]
    /\ locks = [p \in Sessions |-> {}]
    /\ sweep = [pc |-> "idle", now |-> 0, selected |-> {},
                marked_24h |-> {}, marked_2h |-> {},
                instances |-> 0, pending |-> 0, missed |-> 0, refused |-> FALSE,
                failed_24h |-> {}, failed_2h |-> {},
                raised_24h |-> {}, raised_2h |-> {},
                delivered_24h |-> [b \in 1..MaxBookings |-> 0],
                delivered_2h |-> [b \in 1..MaxBookings |-> 0],
                runs |-> {}, first_run |-> [b \in 1..MaxBookings |-> 0]]
    /\ denied = {}
    /\ updates = 0

NextMoves ==
    \/ \E p \in Sessions, bid \in 1..MaxBookings, start \in Starts :
            move_booking_time(p, bid, start)
    \/ \E p \in Sessions : mv_assign(p)
    \/ \E p \in Sessions : mv_commit(p)
    \/ \E p \in Sessions, bid \in 1..MaxBookings : cancel_booking_action(p, bid)
    \/ \E p \in Sessions : cancel_booking(p)
    \/ \E c \in BlockChoices : close_slot(c[1], c[2])
    \/ \E block_id \in 1..MaxBlocks : reopen_slot(block_id)

SpecWaits ==
    /\ InitTwoBooked
    /\ [][NextMoves]_vars
    /\ \A p \in Sessions : WF_vars(mv_assign(p))

(***************************************************************************)
(* The day window and the slot list over the contents the tables can have. *)
(* No handler writes work_schedule: its rows are the seven seeded ones or  *)
(* what the operator has made of them in the database.  A closure is       *)
(* entered with close_slot; a booking may exist already.  The handler      *)
(* _show_available_times (user.py lines 77-104) calls get_available_slots  *)
(* for the chosen day and the service's duration; its queries only read    *)
(* and are one step.                                                       *)
(***************************************************************************)
\* Tuesday given a rule that closes before it opens (18:00-09:00), Saturday
\* one that closes when it opens (09:00-09:00).
MisconfiguredSchedule ==
    [DefaultSchedule EXCEPT
        ![2] = ScheduleRow(1, TimeOfDay(18, 0), TimeOfDay(9, 0), TRUE),
        ![6] = ScheduleRow(5, TimeOfDay(9, 0), TimeOfDay(9, 0), TRUE)]

\* The rules of Tuesday and Saturday switched off.
DeactivatedSchedule ==
    [DefaultSchedule EXCEPT ![2].is_active = FALSE, ![6].is_active = FALSE]

\* A later rule for Tuesday, 09:30-20:00, added to the seeded rows.
OverridingSchedule ==
    Append(DefaultSchedule, ScheduleRow(1, TimeOfDay(9, 30), TimeOfDay(20, 0), TRUE))

ScheduleTables ==
    {<<>>, DefaultSchedule, MisconfiguredSchedule, DeactivatedSchedule,
     OverridingSchedule}

\* The closure 14:00-18:00 of the Tuesday: <<start, hours>>.
WindowBlockChoices == {<<At(1, 14, 0), 4>>}

\* Days a client may choose: the Tuesday and the Saturday of the week.
SlotDays == {1, 5}

\* Durations of the service chosen.
SlotDurations == {60, 90}

\* datetime.now at the call: before the week, and 13:30 of the Tuesday.
SlotNows == {At(0, 0, 0), At(1, 13, 30)}

InitWindow ==
    /\ max_posts \in 1..MaxPosts
    /\ services = Services
    /\ car_types = CarTypes
    /\ work_schedule \in ScheduleTables
    /\ blocked_slots = <<>>
    /\ bookings \in {<<>>,
                     <<NewBooking(ClientId, 1, 1, At(1, 13, 0),
                                  Services[1], CarTypes[1])>>}
    /\ booking_admin_notes = {}
    /\ pc = [p \in Sessions |-> "idle"]
    /\ op = [p \in Sessions |-> IdleOp]
    /\ locks = [p \in Sessions |-> {}]
    /\ sweep = [pc |-> "idle", now |-> 0, selected |-> {},
                marked_24h |-> {}, marked_2h |-> {},
                instances |-> 0, pending |-> 0, missed |-> 0, refused |-> FALSE,
                failed_24h |-> {}, failed_2h |-> {},
                raised_24h |-> {}, raised_2h |-> {},
                delivered_24h |-> [b \in 1..MaxBookings |-> 0],
                delivered_2h |-> [b \in 1..MaxBookings |-> 0],
                runs |-> {}, first_run |-> [b \in 1..MaxBookings |-> 0]]
    /\ denied = {}
    /\ updates = 0

\* slots = get_available_slots(session, day, service.duration_minutes); the
\* window the call computed is kept with the list.
show_available_times(p, day, duration_minutes, now) ==
    /\ FreeSession(p)
    /\ NewUpdate
    /\ op' = [op EXCEPT ![p] = [IdleOp EXCEPT
                 !.kind = "slots", !.day = day, !.duration = duration_minutes,
                 !.now = now,
                 !.window = get_day_window(day),
                 !.slots = get_available_slots(day, duration_minutes, None, NoLimit,
                                              now)]]
    /\ pc' = [pc EXCEPT ![p] = "done"]
    /\ UNCHANGED <<store, locks, denied>>
    /\ UNCHANGED sweep

\* _show_available_dates (user.py lines 45-75): today is the date of the
\* clock reading; days = get_available_days(session, today, duration,
\* horizon_days=14).  Its queries only read and are one step.
show_available_dates(p, duration_minutes, now) ==
    /\ FreeSession(p)
    /\ NewUpdate
    /\ op' = [op EXCEPT ![p] = [IdleOp EXCEPT
                 !.kind = "days", !.day = DateOf(now),
                 !.duration = duration_minutes, !.now = now,
                 !.days = get_available_days(DateOf(now), duration_minutes,
                                             14, None, now)]]
    /\ pc' = [pc EXCEPT ![p] = "done"]
    /\ UNCHANGED <<store, locks, denied>>
    /\ UNCHANGED sweep

\* move_booking_date (admin.py lines 918-957): the booking is loaded and
\* slots = get_available_slots(session, day, booking.service.duration_minutes,
\* exclude_booking_id=booking.id).
move_booking_date(p, bid, day, now) ==
    /\ FreeSession(p)
    /\ bid \in DOMAIN bookings
    /\ NewUpdate
    /\ LET duration_minutes ==
               services[bookings[bid].service_id].duration_minutes
       IN  op' = [op EXCEPT ![p] = [IdleOp EXCEPT
                     !.kind = "move_slots", !.bid = bid, !.day = day,
                     !.duration = duration_minutes, !.now = now,
                     !.window = get_day_window(day),
                     !.slots = get_available_slots(day, duration_minutes, bid,
                                                   NoLimit, now)]]
    /\ pc' = [pc EXCEPT ![p] = "done"]
    /\ UNCHANGED <<store, locks, denied>>
    /\ UNCHANGED sweep

NextWindow ==
    \/ \E p \in Sessions, day \in SlotDays, duration_minutes \in SlotDurations,
          now \in SlotNows :
            show_available_times(p, day, duration_minutes, now)
    \/ \E p \in Sessions, duration_minutes \in SlotDurations, now \in SlotNows :
            show_available_dates(p, duration_minutes, now)
    \/ \E p \in Sessions, bid \in 1..MaxBookings, day \in SlotDays,
          now \in SlotNows :
            move_booking_date(p, bid, day, now)
    \/ \E c \in WindowBlockChoices : close_slot(c[1], c[2])
    \/ \E block_id \in 1..MaxBlocks : reopen_slot(block_id)

SpecWindow == InitWindow /\ [][NextWindow]_vars

(***************************************************************************)
(* The start of the bot over the timetable.  main() runs                   *)
(* init_reference_data before the dispatcher polls, again after a failure  *)
(* (_run_with_retries) and at every restart; the table it finds is empty   *)
(* or holds rows entered in the database.                                  *)
(***************************************************************************)
\* The tables a start may find: those of ScheduleTables that are not the
\* seeded rows themselves.
FoundTables ==
    {<<>>, MisconfiguredSchedule, DeactivatedSchedule, OverridingSchedule}

InitSeed ==
    /\ max_posts \in 1..MaxPosts
    /\ services = Services
    /\ car_types = CarTypes
    /\ work_schedule \in FoundTables
    /\ blocked_slots = <<>>
    /\ bookings \in {<<>>,
                     <<NewBooking(ClientId, 1, 1, At(1, 13, 0),
                                  Services[1], CarTypes[1])>>}
    /\ booking_admin_notes = {}
    /\ pc = [p \in Sessions |-> "idle"]
    /\ op = [p \in Sessions |-> IdleOp]
    /\ locks = [p \in Sessions |-> {}]
    /\ sweep = [pc |-> "idle", now |-> 0, selected |-> {},
                marked_24h |-> {}, marked_2h |-> {},
                instances |-> 0, pending |-> 0, missed |-> 0, refused |-> FALSE,
                failed_24h |-> {}, failed_2h |-> {},
                raised_24h |-> {}, raised_2h |-> {},
                delivered_24h |-> [b \in 1..MaxBookings |-> 0],
                delivered_2h |-> [b \in 1..MaxBookings |-> 0],
                runs |-> {}, first_run |-> [b \in 1..MaxBookings |-> 0]]
    /\ denied = {}
    /\ updates = 0

\* ensure_default_schedule adding its rows whatever the table holds.
ensure_default_schedule_unconditional ==
    /\ \A p \in Sessions : pc[p] \in {"idle", "done"}
    /\ work_schedule' = work_schedule \o DefaultSchedule
    /\ UNCHANGED <<max_posts, services, car_types, blocked_slots, bookings,
                   booking_admin_notes, pc, op, locks, denied, updates>>
    /\ UNCHANGED sweep

\* ensure_default_schedule: count = the id of some row, or None; with a row
\* nothing is written, else the seven rows are added and committed.  It runs
\* while no handler does: before the polling starts.
ensure_default_schedule ==
    /\ \A p \in Sessions : pc[p] \in {"idle", "done"}
    /\ work_schedule' = IF Len(work_schedule) > 0
                        THEN work_schedule
                        ELSE work_schedule \o DefaultSchedule
    /\ UNCHANGED <<max_posts, services, car_types, blocked_slots, bookings,
                   booking_admin_notes, pc, op, locks, denied, updates>>
    /\ UNCHANGED sweep

NextSeed ==
    \/ ensure_default_schedule
    \/ NextWindow

SpecSeed == InitSeed /\ [][NextSeed]_vars

(***************************************************************************)
(* Reservations over the catalogue the administrators keep.  A service and *)
(* a car type are rows entered with create_service and create_car_type     *)
(* (price and multiplier positive, at most two decimals, which the         *)
(* Numeric columns store as entered).  service_field_value (admin.py lines *)
(* 541-582) loads the service, checks that the value typed is positive and *)
(* calls AdminService.update_service_field, which sets the attribute and   *)
(* commits; the handler has no other statement that writes, and it is one  *)
(* step.  confirm_booking loads the service and the car type when it       *)
(* starts and create_booking works on the objects it was given.            *)
(***************************************************************************)
\* base_price of the service: 3500.00, 0.03 and 3.33.
BasePrices == {350000, 3, 333}

\* price_multiplier of the car type: 1.00, 1.20, 1.35 and 1.50.
Multipliers == {100, 120, 135, 150}

\* What an administrator may type: <<field, value>> (0 is refused).
FieldChoices == {<<"duration", 90>>, <<"duration", 0>>, <<"price", 400000>>,
                 <<"price", 0>>}

InitCatalogue ==
    /\ max_posts \in 1..MaxPosts
    /\ services \in {<<ServiceRow(60, b)>> : b \in BasePrices}
    /\ car_types \in {<<[price_multiplier |-> m]>> : m \in Multipliers}
    /\ work_schedule = DefaultSchedule
    /\ blocked_slots = <<>>
    /\ bookings = <<>>
    /\ booking_admin_notes = {}
    /\ pc = [p \in Sessions |-> "idle"]
    /\ op = [p \in Sessions |-> IdleOp]
    /\ locks = [p \in Sessions |-> {}]
    /\ sweep = [pc |-> "idle", now |-> 0, selected |-> {},
                marked_24h |-> {}, marked_2h |-> {},
                instances |-> 0, pending |-> 0, missed |-> 0, refused |-> FALSE,
                failed_24h |-> {}, failed_2h |-> {},
                raised_24h |-> {}, raised_2h |-> {},
                delivered_24h |-> [b \in 1..MaxBookings |-> 0],
                delivered_2h |-> [b \in 1..MaxBookings |-> 0],
                runs |-> {}, first_run |-> [b \in 1..MaxBookings |-> 0]]
    /\ denied = {}
    /\ updates = 0

\* AdminService.update_service_field on the columns the model keeps.
update_service_field(service, field, value) ==
    IF field = "duration" THEN [service EXCEPT !.duration_minutes = value]
    ELSE IF field = "price" THEN [service EXCEPT !.base_price = value]
    ELSE service

\* The handler writing, with the service, the end of every booking of it.
service_field_value_cascading(service_id, field, value) ==
    /\ NewUpdate
    /\ service_id \in DOMAIN services
    /\ services' = IF value <= 0 THEN services
                   ELSE [services EXCEPT ![service_id] =
                            update_service_field(@, field, value)]
    /\ bookings' = [b \in DOMAIN bookings |->
                       IF /\ value > 0 /\ field = "duration"
                          /\ bookings[b].service_id = service_id
                       THEN [bookings[b] EXCEPT
                               !.booking_end = bookings[b].booking_start + value]
                       ELSE bookings[b]]
    /\ UNCHANGED <<max_posts, car_types, work_schedule, blocked_slots,
                   booking_admin_notes, pc, op, locks, denied>>
    /\ UNCHANGED sweep

\* The handler: a value that is not positive is answered "incorrect value"
\* and nothing is written.
service_field_value(service_id, field, value) ==
    /\ NewUpdate
    /\ service_id \in DOMAIN services
    /\ services' = IF value <= 0 THEN services
                   ELSE [services EXCEPT ![service_id] =
                            update_service_field(@, field, value)]
    /\ UNCHANGED <<max_posts, car_types, work_schedule, blocked_slots, bookings,
                   booking_admin_notes, pc, op, locks, denied>>
    /\ UNCHANGED sweep

\* What an administrator may type for a car type (0 is refused).
CarFieldChoices == {<<"multiplier", 135>>, <<"multiplier", 0>>}

\* AdminService.update_car_field on the column the model keeps.
update_car_field(car_type, field, value) ==
    IF field = "multiplier" THEN [car_type EXCEPT !.price_multiplier = value]
    ELSE car_type

\* car_field_value (admin.py lines 727-760): as service_field_value, for a
\* car type.
car_field_value(car_type_id, field, value) ==
    /\ NewUpdate
    /\ car_type_id \in DOMAIN car_types
    /\ car_types' = IF value <= 0 THEN car_types
                    ELSE [car_types EXCEPT ![car_type_id] =
                             update_car_field(@, field, value)]
    /\ UNCHANGED <<max_posts, services, work_schedule, blocked_slots, bookings,
                   booking_admin_notes, pc, op, locks, denied>>
    /\ UNCHANGED sweep

NextCatalogue ==
    \/ \E p \in Sessions, start \in Starts, car \in DOMAIN car_types :
            confirm_booking(p, start, car)
    \/ \E p \in Sessions : cb_isa(p)
    \/ \E p \in Sessions : cb_lock(p)
    \/ \E p \in Sessions : cb_blocks(p)
    \/ \E p \in Sessions : cb_assign(p)
    \/ \E p \in Sessions : cb_commit(p)
    \/ \E service_id \in DOMAIN Services, c \in FieldChoices :
            service_field_value(service_id, c[1], c[2])
    \/ \E car_type_id \in DOMAIN CarTypes, c \in CarFieldChoices :
            car_field_value(car_type_id, c[1], c[2])

SpecCatalogue == InitCatalogue /\ [][NextCatalogue]_vars

(***************************************************************************)
(* A closure laid over a booking that exists: the engine started with the  *)
(* booking of 10:00-11:00 made (as SpecLifecycle), the administrator       *)
(* closing 10:00-11:00 of the same day (close_slot_duration, admin.py      *)
(* lines 826-863: any start, 1 to 24 hours; no test against the bookings). *)
(***************************************************************************)
\* The closure 10:00-11:00 of the Tuesday: <<start, hours>>.
ClosureChoices == {<<At(1, 10, 0), 1>>}

NextClosure ==
    \/ \E p \in Sessions, start \in Starts, car \in DOMAIN car_types :
            confirm_booking(p, start, car)
    \/ \E p \in Sessions : cb_isa(p)
    \/ \E p \in Sessions : cb_lock(p)
    \/ \E p \in Sessions : cb_blocks(p)
    \/ \E p \in Sessions : cb_assign(p)
    \/ \E p \in Sessions : cb_commit(p)
    \/ \E p \in Sessions, bid \in 1..MaxBookings, start \in Starts :
            move_booking_time(p, bid, start)
    \/ \E p \in Sessions : mv_assign(p)
    \/ \E p \in Sessions : mv_commit(p)
    \/ \E p \in Sessions, bid \in 1..MaxBookings : cancel_booking_action(p, bid)
    \/ \E p \in Sessions : cancel_booking(p)
    \/ \E c \in ClosureChoices : close_slot(c[1], c[2])
    \/ \E block_id \in 1..MaxBlocks : reopen_slot(block_id)
    \/ \E p \in Sessions : close_session(p)

SpecClosure == InitBooked /\ [][NextClosure]_vars

(***************************************************************************)
(* Closures and their reopening.  The table of closures is empty or holds  *)
(* the closure 11:00-12:00 entered earlier; the administrator's            *)
(* open_slot_action (admin.py lines 877-884) carries the block id of a     *)
(* button, which may be that of no row.                                    *)
(***************************************************************************)
\* Block ids a callback may carry: those of the rows and one more.
BlockIds == 1..(MaxBlocks + 1)

InitClosed ==
    /\ max_posts \in 1..MaxPosts
    /\ services = Services
    /\ car_types = CarTypes
    /\ work_schedule = DefaultSchedule
    /\ blocked_slots \in {<<>>, <<BlockedSlotRow(At(1, 11, 0), At(1, 12, 0))>>}
    /\ bookings = <<>>
    /\ booking_admin_notes = {}
    /\ pc = [p \in Sessions |-> "idle"]
    /\ op = [p \in Sessions |-> IdleOp]
    /\ locks = [p \in Sessions |-> {}]
    /\ sweep = [pc |-> "idle", now |-> 0, selected |-> {},
                marked_24h |-> {}, marked_2h |-> {},
                instances |-> 0, pending |-> 0, missed |-> 0, refused |-> FALSE,
                failed_24h |-> {}, failed_2h |-> {},
                raised_24h |-> {}, raised_2h |-> {},
                delivered_24h |-> [b \in 1..MaxBookings |-> 0],
                delivered_2h |-> [b \in 1..MaxBookings |-> 0],
                runs |-> {}, first_run |-> [b \in 1..MaxBookings |-> 0]]
    /\ denied = {}
    /\ updates = 0

NextReopen ==
    \/ \E p \in Sessions, start \in Starts, car \in DOMAIN car_types :
            confirm_booking(p, start, car)
    \/ \E p \in Sessions : cb_isa(p)
    \/ \E p \in Sessions : cb_lock(p)
    \/ \E p \in Sessions : cb_blocks(p)
    \/ \E p \in Sessions : cb_assign(p)
    \/ \E p \in Sessions : cb_commit(p)
    \/ \E c \in BlockChoices : close_slot(c[1], c[2])
    \/ \E block_id \in BlockIds : reopen_slot(block_id)

SpecReopen == InitClosed /\ [][NextReopen]_vars

(***************************************************************************)
(* Properties.  The history fields of op describe a create_booking call:   *)
(* pre is the set of Confirmed bookings intersecting its interval when the *)
(* call started, seen the number of rows the table held then, conc the     *)
(* calls that were in progress then.                                       *)
(***************************************************************************)
\* create_booking calls that returned a booking.
Created == {p \in Sessions : op[p].kind = "create" /\ pc[p] = "done"}

\* create_booking calls that have returned or raised.
Returned == {p \in Sessions : op[p].kind = "create" /\ pc[p] \in {"done", "failed"}}

\* The requested intervals of two calls intersect.
CallsOverlap(p, q) ==
    /\ op[p].start < op[q].start + op[q].duration
    /\ op[q].start < op[p].start + op[p].duration

\* Two calls were in progress at the same time.
Concurrent(p, q) == p \in op[q].conc \/ q \in op[p].conc

\* Two rows have intersecting half-open intervals.
RowsOverlap(a, b) ==
    a.booking_start < b.booking_end /\ b.booking_start < a.booking_end

\* C1: among concurrent create_booking calls whose intervals share a time
\* range (intervals on a line that intersect pairwise share a point), the
\* calls that succeed are at most max_posts minus the Confirmed bookings that
\* already intersected the range when the calls started, and the bookings
\* they made have pairwise distinct posts in 1..max_posts.
C1_ConcurrentReservesWithinCapacity ==
    \A S \in SUBSET Created :
        (/\ S # {}
         /\ \A p, q \in S : p # q => CallsOverlap(p, q) /\ Concurrent(p, q))
        => LET already == {b \in DOMAIN bookings :
                              /\ bookings[b].status = CONFIRMED
                              /\ \A p \in S : b \in op[p].pre}
           IN  /\ Cardinality(S) <= max_posts - Cardinality(already)
               /\ \A p \in S : op[p].post \in 1..max_posts
               /\ \A p, q \in S : p # q => op[p].post # op[q].post

\* C2: every booking has a post in 1..max_posts, and no two Confirmed
\* bookings on the same post have intersecting intervals [start, end).
C2_NoDoubleBookedPost ==
    /\ \A i \in DOMAIN bookings : bookings[i].post_id \in 1..max_posts
    /\ \A i, j \in DOMAIN bookings :
          (/\ i < j
           /\ bookings[i].status = CONFIRMED
           /\ bookings[j].status = CONFIRMED
           /\ bookings[i].post_id = bookings[j].post_id)
          => ~RowsOverlap(bookings[i], bookings[j])

\* Nothing but the two calls p and q and the calls that made the bookings
\* both found at their start has touched the store.
OnlyTheRace(p, q) ==
    /\ blocked_slots = <<>>
    /\ \A r \in Sessions \ {p, q} :
          \/ pc[r] \in {"idle", "rejected"}
          \/ r \in Created /\ op[r].bid \in op[p].pre \cap op[q].pre

\* C3: two create_booking calls for intersecting intervals that race while
\* exactly one post is free for the range: exactly one of them returns a
\* booking, never both and never neither.
C3_RaceHasOneWinner ==
    \A p, q \in Returned :
        (/\ p # q
         /\ CallsOverlap(p, q)
         /\ Concurrent(p, q)
         /\ op[p].pre = op[q].pre
         /\ Cardinality(op[p].pre) = max_posts - 1
         /\ \A b \in op[p].pre : bookings[b].status = CONFIRMED
         /\ OnlyTheRace(p, q))
        => (pc[p] = "done") # (pc[q] = "done")

\* C4: create_booking commits only while the window, block and capacity
\* conditions hold on the store it commits to, whatever an earlier check
\* returned; a call that raises leaves the bookings table as it was.
C4_ReserveChecksAtCommit ==
    [][\A p \in Sessions :
          /\ (pc[p] = "cb_commit" /\ pc'[p] = "done")
                => is_slot_available(op[p].start, op[p].duration, None)
          /\ (op[p].kind = "create" /\ pc[p] # "failed" /\ pc'[p] = "failed")
                => bookings' = bookings]_vars

\* C5: a create_booking call that starts after is_slot_available refused
\* its start and duration, with no cancel, move or reopen commit since the
\* refusal, raises: it never returns a booking.
C5_RefusedThenReserveFails ==
    \A p \in Sessions :
        (op[p].kind = "create" /\ op[p].denied) => pc[p] # "done"

\* C5 happens: a call that started after a refusal for lack of a free post
\* has raised.
C5_Witness ==
    \E p \in Sessions :
        /\ op[p].kind = "create" /\ op[p].denied /\ pc[p] = "failed"
        /\ op[p].pre # {}

\* The half-hour grid of the booking date that the model's starts lie on.
Grid == {At(1, 10, 0) + 30 * k : k \in 0..4}

\* C6: for a time interval I, the Confirmed bookings intersecting I are at
\* most max_posts and have pairwise distinct posts in 1..max_posts.  Stated
\* for the half-hour intervals of the grid, the shortest the model tells
\* apart; every longer interval contains one of them.
C6_IntervalWithinCapacity ==
    \A a \in Grid :
        LET hit == {i \in DOMAIN bookings :
                       /\ bookings[i].status = CONFIRMED
                       /\ bookings[i].booking_start < a + 30
                       /\ a < bookings[i].booking_end}
        IN  /\ Cardinality(hit) <= max_posts
            /\ \A i \in hit : bookings[i].post_id \in 1..max_posts
            /\ \A i, j \in hit : i # j => bookings[i].post_id # bookings[j].post_id

\* Durations is_slot_available is asked about.
Durations == {30, 60}

\* C7: is_slot_available(start, duration, exclude) is true exactly when
\* [start, start + duration) lies inside the day window of start's date, no
\* active block intersects it, and the Confirmed bookings intersecting it,
\* the excluded one not counted, are fewer than max_posts.
C7_AvailableIffThreeConditions ==
    \A start \in Starts, duration \in Durations, exclude \in 0..MaxBookings :
        LET end == start + duration
            window == get_day_window(DateOf(start))
            inside == /\ window.ok
                      /\ window.day_start <= start
                      /\ end <= window.day_end
            blocked == \E k \in DOMAIN blocked_slots :
                          /\ blocked_slots[k].is_active
                          /\ blocked_slots[k].start_datetime < end
                          /\ start < blocked_slots[k].end_datetime
            taken == {i \in DOMAIN bookings :
                         /\ i # exclude
                         /\ bookings[i].status = CONFIRMED
                         /\ bookings[i].booking_start < end
                         /\ start < bookings[i].booking_end}
        IN  is_slot_available(start, duration, exclude)
                <=> (inside /\ ~blocked /\ Cardinality(taken) < max_posts)

\* C7 happens: an active block starts exactly where a slot ends, and the
\* slot, full, is available once one of its bookings is excluded.
C7_Witness ==
    \E k \in DOMAIN blocked_slots, start \in Starts, b \in DOMAIN bookings :
        /\ blocked_slots[k].is_active
        /\ blocked_slots[k].start_datetime = start + 60
        /\ ~is_slot_available(start, 60, None)
        /\ is_slot_available(start, 60, b)

\* The smallest post in 1..max_posts that no Confirmed booking intersecting
\* [start, end) has, the excluded booking not counted; None if there is none.
SmallestFreePost(start, end, exclude) ==
    LET used == {bookings[i].post_id :
                    i \in {j \in DOMAIN bookings :
                              /\ j # exclude
                              /\ bookings[j].status = CONFIRMED
                              /\ RowsOverlap(bookings[j],
                                     [booking_start |-> start, booking_end |-> end])}}
        free == (1..max_posts) \ used
    IN  IF free = {} THEN None
        ELSE CHOOSE k \in free : \A m \in free : k <= m

\* C8: the post a create_booking or a move_booking assigns is the smallest
\* post in 1..max_posts that no Confirmed booking intersecting the target
\* interval has (for a move, the moved booking not counted) in the store
\* the assignment reads, and it is the post of the row create_booking adds.
C8_AssignsSmallestFreePost ==
    [][\A p \in Sessions :
          /\ (pc[p] = "cb_assign" /\ pc'[p] = "cb_commit")
                => op'[p].post = SmallestFreePost(op[p].start,
                                     op[p].start + op[p].duration, None)
          /\ (pc[p] = "mv_assign" /\ pc'[p] = "mv_commit")
                => op'[p].post = SmallestFreePost(op[p].start,
                                     op[p].start + op[p].duration, op[p].bid)
          /\ (pc[p] = "cb_commit" /\ pc'[p] = "done")
                => bookings'[Len(bookings')].post_id = op[p].post]_vars

\* C8 happens: a reservation has been given post 2 because a Confirmed
\* booking intersecting it had post 1.
C8_Witness ==
    \E p \in Created :
        /\ op[p].post = 2
        /\ bookings[op[p].bid].post_id = 2
        /\ \E b \in op[p].pre : bookings[b].post_id = 1

\* The first update reserved 10:00-11:00 and committed before the second
\* update's create_booking started; nothing else has happened.
C9_Scenario ==
    /\ max_posts = 1
    /\ updates = 2
    /\ blocked_slots = <<>>
    /\ op[1].kind = "create" /\ pc[1] = "done" /\ op[1].start = At(1, 10, 0)
    /\ op[1].duration = 60
    /\ op[2].kind = "create" /\ op[2].duration = 60 /\ op[2].seen = 1

\* C9: intervals are half-open.  With max_posts = 1 and a Confirmed booking
\* 10:00-11:00, a 60-minute create_booking at 10:30 raises and adds no row,
\* one at 11:00 does not raise and the row it adds has post 1; and a
\* booking that ends when another starts is never returned as overlapping.
C9_HalfOpenIntervals ==
    /\ C9_Scenario =>
          /\ op[2].start = At(1, 10, 30) => pc[2] = "failed" /\ Len(bookings) = 1
          /\ op[2].start = At(1, 11, 0) =>
                /\ pc[2] # "failed"
                /\ pc[2] = "done" =>
                      /\ Len(bookings) = 2
                      /\ bookings[2].post_id = 1
                      /\ bookings[2].booking_start = At(1, 11, 0)
                      /\ bookings[2].status = CONFIRMED
    /\ \A i, j \in DOMAIN bookings :
          bookings[i].booking_end = bookings[j].booking_start
          => /\ i \notin get_overlapping_bookings(bookings[j].booking_start,
                              bookings[j].booking_end, None)
             /\ j \notin get_overlapping_bookings(bookings[i].booking_start,
                              bookings[i].booking_end, None)

\* C9 happens: the reservation at 11:00 was made next to the one at 10:00.
C9_Witness ==
    /\ C9_Scenario
    /\ op[2].start = At(1, 11, 0)
    /\ pc[2] = "done"
    /\ bookings[1].status = CONFIRMED
    /\ bookings[1].booking_end = bookings[2].booking_start

\* C10: the commit of a successful move_booking leaves the row with the new
\* start, the new end, the assigned post and both reminder flags false,
\* whatever they were, and with every other column as it was.
C10_MoveSetsRow ==
    [][\A p \in Sessions :
          (pc[p] = "mv_commit" /\ pc'[p] = "done")
          => bookings'[op[p].bid] =
                [bookings[op[p].bid] EXCEPT
                    !.booking_start = op[p].start,
                    !.booking_end = op[p].start + op[p].duration,
                    !.post_id = op[p].post,
                    !.reminder_24h_sent = FALSE,
                    !.reminder_2h_sent = FALSE]]_vars

\* C11: a move_booking call that raises (the target interval is outside the
\* working window, blocked or at capacity, or no post is free) leaves the
\* bookings table, and so the booking's start, end, post and both reminder
\* flags, as they were.
C11_FailedMoveChangesNothing ==
    [][\A p \in Sessions :
          (op'[p].kind = "move" /\ pc[p] # "failed" /\ pc'[p] = "failed")
              => bookings' = bookings]_vars

\* C11 happens: a move to another start has raised.
C11_Witness ==
    \E p \in Sessions :
        /\ op[p].kind = "move" /\ pc[p] = "failed"
        /\ bookings[op[p].bid].booking_start # op[p].start

\* The bookings on which a move_booking call has committed.
Moved == {op[p].bid : p \in {q \in Sessions : op[q].kind = "move" /\ pc[q] = "done"}}

\* The start create_booking gave booking b.
CreatedStart(b) ==
    op[CHOOSE p \in Sessions : op[p].kind = "create" /\ pc[p] = "done" /\ op[p].bid = b].start

\* C12 as stated: over any sequence of process_reminders runs, a booking
\* whose start no move has changed (every committed move of it kept the
\* start it was created with) has been sent the 24-hour reminder at most
\* once and the 2-hour reminder at most once.
C12_AtMostOncePerStart ==
    \A b \in DOMAIN bookings :
        (\A p \in Sessions :
            (op[p].kind = "move" /\ pc[p] = "done" /\ op[p].bid = b)
                => op[p].start = CreatedStart(b))
        => sweep.delivered_24h[b] <= 1 /\ sweep.delivered_2h[b] <= 1

\* C12 amended: over any sequence of process_reminders runs, a booking on
\* which no move has committed has been sent the 24-hour reminder at most
\* once and the 2-hour reminder at most once.
C12_AtMostOnceUnlessMoved ==
    \A b \in DOMAIN bookings \ Moved :
        sweep.delivered_24h[b] <= 1 /\ sweep.delivered_2h[b] <= 1

\* C12 happens: two consecutive runs whose 24-hour windows both contain the
\* start of a booking that was not moved are over, and the reminder went
\* out once.
C12_Witness ==
    /\ sweep.pc = "idle"
    /\ {At(0, 10, 0), At(0, 10, 10)} \subseteq sweep.runs
    /\ \E b \in DOMAIN bookings \ Moved :
          /\ bookings[b].booking_start = At(1, 10, 0)
          /\ sweep.first_run[b] = At(0, 10, 0)
          /\ sweep.delivered_24h[b] = 1

\* Every ten minutes of [lo, hi] saw a run begin with booking b in the
\* table: each stretch [t, t + 10] of it, t on the ten-minute grid from lo,
\* holds the clock reading of a run that is not before b's first run.
RunsCover(b, lo, hi) ==
    \A t \in {lo + interval_minutes * k :
                 k \in 0..((hi - lo) \div interval_minutes - 1)} :
        \E r \in sweep.runs :
            /\ sweep.first_run[b] # 0 /\ r >= sweep.first_run[b]
            /\ t <= r /\ r <= t + interval_minutes

\* C13: when every run that began is over, a booking that is Confirmed and
\* was not moved has been sent the 24-hour reminder exactly once if runs
\* that had it in the table covered [S-24h10m, S-23h50m] and no 24-hour
\* send for it raised, and the 2-hour reminder exactly once if such runs
\* covered [S-2h10m, S-1h50m] and no 2-hour send for it raised (S its start).
C13_ExactlyOnceUnderCadence ==
    sweep.pc = "idle" =>
        \A b \in DOMAIN bookings \ Moved :
            bookings[b].status = CONFIRMED
            => LET S == bookings[b].booking_start
               IN  /\ (/\ RunsCover(b, S - (24 * 60 + 10), S - (23 * 60 + 50))
                       /\ b \notin sweep.raised_24h)
                      => sweep.delivered_24h[b] = 1
                   /\ (/\ RunsCover(b, S - (2 * 60 + 10), S - (60 + 50))
                       /\ b \notin sweep.raised_2h)
                      => sweep.delivered_2h[b] = 1

\* C13 happens: the runs of the interval began at its two ends, S-24h10m
\* and S-23h50m, and the 24-hour reminder went out once.
C13_Witness ==
    /\ sweep.pc = "idle"
    /\ sweep.runs = {At(0, 9, 50), At(0, 10, 10)}
    /\ \E b \in DOMAIN bookings \ Moved :
          /\ sweep.first_run[b] = At(0, 9, 50)
          /\ bookings[b].status = CONFIRMED
          /\ bookings[b].booking_start = At(1, 10, 0)
          /\ b \notin sweep.raised_24h
          /\ sweep.delivered_24h[b] = 1

\* C14: the sends of a window try every selected row: the rows whose send
\* raised are left unmarked, every other selected row is marked, and the job
\* goes on to the 2-hour window and to the commit; the flag of a row whose
\* send raised stays false; and the next run whose window contains the
\* start of such a row, still Confirmed, selects it again.
C14_SendFailureIsLocal ==
    /\ [](/\ \A b \in sweep.failed_24h : ~bookings[b].reminder_24h_sent
          /\ \A b \in sweep.failed_2h : ~bookings[b].reminder_2h_sent)
    /\ [][/\ (sweep.pc = "send_24h" /\ sweep'.pc # "send_24h")
              => /\ sweep'.pc = "window_2h"
                 /\ sweep'.failed_24h \subseteq sweep.selected
                 /\ sweep'.marked_24h = sweep.selected \ sweep'.failed_24h
          /\ (sweep.pc = "send_2h" /\ sweep'.pc # "send_2h")
              => /\ sweep'.pc = "commit"
                 /\ sweep'.failed_2h \subseteq sweep.selected
                 /\ sweep'.marked_2h = sweep.selected \ sweep'.failed_2h
          /\ (sweep'.pc = "send_24h" /\ sweep.pc # "send_24h")
              => \A b \in sweep.failed_24h :
                    (/\ bookings[b].status = CONFIRMED
                     /\ bookings[b].booking_start >= sweep'.now + 23 * 60 + 50
                     /\ bookings[b].booking_start < sweep'.now + 24 * 60 + 10)
                    => b \in sweep'.selected
          /\ (sweep'.pc = "send_2h" /\ sweep.pc # "send_2h")
              => \A b \in sweep.failed_2h :
                    (/\ bookings[b].status = CONFIRMED
                     /\ bookings[b].booking_start >= sweep'.now + 60 + 50
                     /\ bookings[b].booking_start < sweep'.now + 2 * 60 + 10)
                    => b \in sweep'.selected]_vars

\* C14 happens: in one run the 24-hour send raised for one booking and went
\* out for another, and the next run has selected the first again.
C14_Witness ==
    /\ sweep.pc = "send_24h"
    /\ \E b, c \in DOMAIN bookings :
          /\ b \in sweep.failed_24h /\ b \in sweep.selected
          /\ c \notin sweep.failed_24h /\ sweep.delivered_24h[c] = 1
          /\ bookings[c].reminder_24h_sent

\* C15: at most one run of process_reminders is in progress at any time: a
\* run begins only while none is in progress, and a fire time that comes
\* due during a run starts nothing.
C15_SingleFlight ==
    /\ [](/\ sweep.instances <= 1
          /\ (sweep.pc # "idle") = (sweep.instances = 1))
    /\ [][/\ (sweep'.runs # sweep.runs)
              => sweep.pc = "idle" /\ sweep.instances = 0
          /\ (sweep'.refused /\ ~sweep.refused /\ sweep'.now = sweep.now)
              => /\ sweep.pc # "idle"
                 /\ sweep'.pc = sweep.pc
                 /\ sweep'.runs = sweep.runs
                 /\ sweep'.instances = sweep.instances]_vars

\* C15 happens: a fire time came due while a run was in progress and was
\* dropped, and the run has reached its commit.
C15_Witness ==
    sweep.refused /\ sweep.pc = "commit" /\ sweep.instances = 1

\* C16: however many fire times were due when the scheduler submitted the
\* job, and whether or not fire times were dropped during a run, no run is
\* ever queued behind the one in progress: a submission is one run, after
\* its commit the job is idle, and no booking that was not moved gets a
\* reminder twice.
C16_MissedTriggersCoalesce ==
    /\ [](/\ sweep.pending = 0
          /\ \A b \in DOMAIN bookings \ Moved :
                sweep.delivered_24h[b] <= 1 /\ sweep.delivered_2h[b] <= 1)
    /\ [][(sweep.pc = "commit" /\ sweep'.pc # "commit")
              => /\ sweep'.pc = "idle"
                 /\ sweep'.instances = 0
                 /\ sweep'.pending = 0
                 /\ sweep'.runs = sweep.runs]_vars

\* C16 happens: a run submitted for two due fire times has sent a reminder
\* and reached its commit.
C16_Witness ==
    /\ sweep.missed >= 2
    /\ sweep.pc = "commit"
    /\ \E b \in sweep.marked_24h : sweep.delivered_24h[b] = 1

\* C18: a reminder goes out only for a booking that is Confirmed when it is
\* sent, and no step changes a reminder flag of a booking that is not
\* Confirmed, also when a cancel commits between the job's query and its
\* sends or its commit.
C18_NoReminderUnlessConfirmed ==
    [][/\ (sweep.pc = "send_24h" /\ sweep'.pc = "window_2h")
          => \A b \in sweep'.marked_24h : bookings[b].status = CONFIRMED
       /\ (sweep.pc = "send_2h" /\ sweep'.pc = "commit")
          => \A b \in sweep'.marked_2h : bookings[b].status = CONFIRMED
       /\ \A b \in DOMAIN bookings :
             bookings[b].status # CONFIRMED
             => /\ bookings'[b].reminder_24h_sent = bookings[b].reminder_24h_sent
                /\ bookings'[b].reminder_2h_sent = bookings[b].reminder_2h_sent]_vars

\* The statuses after which a booking is not to change any more.
Terminal == {CANCELLED, COMPLETED, NO_SHOW}

\* C17: once a booking is Cancelled, Completed or NoShow no step changes
\* its status, start, end or post; a move_booking on it does not move it.
C17_TerminalBookingsImmutable ==
    [][\A b \in DOMAIN bookings :
          bookings[b].status \in Terminal
          => /\ bookings'[b].status = bookings[b].status
             /\ bookings'[b].booking_start = bookings[b].booking_start
             /\ bookings'[b].booking_end = bookings[b].booking_end
             /\ bookings'[b].post_id = bookings[b].post_id]_vars

\* The cancel calls: the three handlers' calls of BookingService.cancel_booking.
CancelKinds == {"cancel", CancelWithoutReason, CancelWithReason}

\* C19: BookingService.cancel_booking executed on a booking whose status is
\* not Confirmed is rejected (the call does not complete) and leaves the
\* bookings table as it was; and a cancel handler that finds the booking not
\* Confirmed changes nothing.
C19_CancelRejectedUnlessConfirmed ==
    [][\A p \in Sessions :
          /\ (/\ pc[p] = "cn_commit" /\ pc'[p] # "cn_commit"
              /\ bookings[op[p].bid].status # CONFIRMED)
             => pc'[p] \in {"failed", "rejected"} /\ bookings' = bookings
          /\ (pc[p] = "idle" /\ pc'[p] = "rejected") => bookings' = bookings]_vars

\* C20: when a cancel path has completed (the bookings list, the card
\* without a reason, the card with a typed reason), the admin notes hold a
\* note about the cancellation of that booking.
C20_CancelLeavesNote ==
    \A p \in Sessions :
        (op[p].kind \in CancelKinds /\ pc[p] = "done")
        => \E note \in booking_admin_notes :
              /\ note.booking_id = op[p].bid
              /\ note.text \in {CancelWithoutReason, CancelWithReason}

\* C21: no step removes a row of bookings (the table never gets shorter and
\* a row keeps its id), and the commit of a cancel leaves the table as it
\* was except for the status of the one booking, which is Cancelled after
\* it: its post, start, end, final price and reminder flags and every other
\* booking are unchanged.
C21_CancelChangesStatusOnly ==
    [][/\ Len(bookings') >= Len(bookings)
       /\ \A p \in Sessions :
             (pc[p] = "cn_commit" /\ pc'[p] # "cn_commit")
             => bookings' = [bookings EXCEPT ![op[p].bid].status = CANCELLED]]_vars

\* C21 happens: a cancel has committed on a booking that a move, committed
\* after the cancel handler had loaded the booking, had put at another start.
C21_Witness ==
    \E p, q \in Sessions :
        /\ p < q
        /\ op[p].kind \in CancelKinds /\ pc[p] \in {"done", "cn_note"}
        /\ op[q].kind = "move" /\ pc[q] = "done" /\ op[q].bid = op[p].bid
        /\ bookings[op[p].bid].status = CANCELLED
        /\ bookings[op[p].bid].booking_start = op[q].start
        /\ op[q].start # At(1, 10, 0)

\* C22: a reminder flag changes from false to true only in the commit of a
\* process_reminders run, for a row the run selected with the flag false
\* and whose send in that window went out; and it changes from true to
\* false only in the commit of a successful move_booking of that booking.
C22_FlagsSetOnlyBySweep ==
    [][\A b \in DOMAIN bookings :
          /\ (~bookings[b].reminder_24h_sent /\ bookings'[b].reminder_24h_sent)
                => /\ sweep.pc = "commit" /\ sweep'.pc = "idle"
                   /\ b \in sweep.marked_24h /\ b \notin sweep.failed_24h
                   /\ sweep.delivered_24h[b] >= 1
          /\ (~bookings[b].reminder_2h_sent /\ bookings'[b].reminder_2h_sent)
                => /\ sweep.pc = "commit" /\ sweep'.pc = "idle"
                   /\ b \in sweep.marked_2h /\ b \notin sweep.failed_2h
                   /\ sweep.delivered_2h[b] >= 1
          /\ (\/ bookings[b].reminder_24h_sent /\ ~bookings'[b].reminder_24h_sent
              \/ bookings[b].reminder_2h_sent /\ ~bookings'[b].reminder_2h_sent)
                => \E p \in Sessions :
                      /\ pc[p] = "mv_commit" /\ pc'[p] = "done"
                      /\ op[p].bid = b]_vars

\* C22 happens: a run sent the 24-hour reminder of a booking and set its
\* flag at the commit, and a move committed afterwards has reset the flag.
C22_Witness ==
    /\ sweep.pc = "idle"
    /\ sweep.runs = {At(0, 10, 0)}
    /\ \E b \in Moved :
          /\ sweep.delivered_24h[b] = 1
          /\ sweep.delivered_2h[b] = 0
          /\ ~bookings[b].reminder_24h_sent
          /\ bookings[b].booking_start # At(1, 10, 0)

\* The FOR UPDATE statements: a session at one of them is about to acquire,
\* or is waiting for, the locks of the rows the query returns.
LockingStatements == {"cb_lock", "cb_assign", "mv_assign"}

\* C23: a create_booking or move_booking call never waits for its row locks
\* for ever: a call at a FOR UPDATE statement eventually leaves it (with the
\* locks or by raising), also when the transaction that holds the locks
\* never commits.
C23_LockWaitIsBounded ==
    \A p \in Sessions :
        (pc[p] \in LockingStatements) ~> (pc[p] \notin LockingStatements)

\* create_booking calls inside the critical section: the FOR UPDATE count
\* has been taken, the commit has not been made.
InCritical == {p \in Sessions : pc[p] \in {"cb_blocks", "cb_assign", "cb_commit"}}

\* The rows the FOR UPDATE statement session p is at would return.
RowsToLock(p) ==
    get_overlapping_bookings(op[p].start, op[p].start + op[p].duration, None)

\* C24: two create_booking calls whose intervals intersect are never both
\* between their FOR UPDATE count and their commit; and a create_booking
\* call at a FOR UPDATE statement is not kept waiting by a create_booking
\* call whose interval is disjoint from its own and intersects no booking
\* that its own intersects.
C24_OverlappingReservesSerialized ==
    \A p, q \in Sessions :
        p # q =>
           /\ (p \in InCritical /\ q \in InCritical) => ~CallsOverlap(p, q)
           /\ (/\ pc[p] \in {"cb_lock", "cb_assign"}
               /\ q \in InCreate
               /\ ~CallsOverlap(p, q)
               /\ RowsToLock(p) \cap RowsToLock(q) = {})
              => locks[q] \cap RowsToLock(p) = {}

\* C25: every row of bookings, in every state, has a status, a post in
\* 1..max_posts, an end after its start and a final price; and the table
\* gets a row only by the commit of a create_booking call, one row at a
\* time, complete from that commit on: status Confirmed, the post the call
\* was assigned, end = start + the service's duration, the final price
\* calculated from the service and the car type, both reminder flags false.
C25_NoPartialBooking ==
    /\ [](\A b \in DOMAIN bookings :
             /\ bookings[b].status \in {CONFIRMED, CANCELLED, COMPLETED, NO_SHOW}
             /\ bookings[b].post_id \in 1..max_posts
             /\ bookings[b].booking_end > bookings[b].booking_start
             /\ bookings[b].final_price # None)
    /\ [][Len(bookings') # Len(bookings)
             => /\ Len(bookings') = Len(bookings) + 1
                /\ \A b \in DOMAIN bookings : bookings'[b] = bookings[b]
                /\ \E p \in Sessions :
                      /\ pc[p] = "cb_commit" /\ pc'[p] = "done"
                      /\ LET row == bookings'[Len(bookings')]
                         IN  /\ row.status = CONFIRMED
                             /\ row.post_id = op[p].post
                             /\ row.booking_start = op[p].start
                             /\ row.booking_end = row.booking_start
                                   + services[row.service_id].duration_minutes
                             /\ row.final_price =
                                   calculate_price(services[row.service_id].base_price,
                                       car_types[row.car_type_id].price_multiplier)
                             /\ ~row.reminder_24h_sent
                             /\ ~row.reminder_2h_sent]_vars

\* C25 happens: a create_booking call is at its commit, its row not yet in
\* the table, while the table holds the complete row of an earlier call.
C25_Witness ==
    \E p, q \in Sessions :
        /\ pc[p] = "cb_commit" /\ op[p].post = 2
        /\ q \in Created
        /\ Len(bookings) = 1
        /\ bookings[1].post_id = 1
        /\ bookings[1].final_price = 420000

\* No active rule of work_schedule is for the weekday of the date, as when
\* the table has no rows.
NoRule(day) ==
    \A i \in DOMAIN work_schedule :
        ~(work_schedule[i].day_of_week = Weekday(day) /\ work_schedule[i].is_active)

\* The window the claim gives for a date without a rule.
FallbackWindow(day) ==
    IF Weekday(day) < 5
    THEN [ok |-> TRUE, day_start |-> At(day, 0, 0), day_end |-> At(day + 1, 0, 0)]
    ELSE [ok |-> TRUE, day_start |-> At(day, 9, 0), day_end |-> At(day, 23, 0)]

\* The dates of two weeks.
Dates == 0..13

\* C26: for a date whose weekday has no rule (so for every date when the
\* table has no rows) get_day_window returns 00:00 of the date to 00:00 of
\* the next day from Monday to Friday and 09:00 to 23:00 of the date on
\* Saturday and Sunday, and that is the window get_available_slots saw.
C26_FallbackWindow ==
    /\ \A day \in Dates : NoRule(day) => get_day_window(day) = FallbackWindow(day)
    /\ \A p \in Sessions :
          (op[p].kind = "slots" /\ NoRule(op[p].day))
          => op[p].window = FallbackWindow(op[p].day)

\* C26 happens: with no rows in the table the slots of the Tuesday and of
\* the Saturday have been listed.
C26_Witness ==
    /\ work_schedule = <<>>
    /\ \E p, q \in Sessions :
          /\ op[p].kind = "slots" /\ op[p].day = 1
          /\ op[p].window.day_end = At(2, 0, 0)
          /\ op[q].kind = "slots" /\ op[q].day = 5
          /\ op[q].window.day_start = At(5, 9, 0)

\* The opening and closing times in force on a date: those of the active
\* rule with the largest id for its weekday, else the built-in ones.
RuleTimes(day) ==
    LET rules == {i \in DOMAIN work_schedule :
                    /\ work_schedule[i].day_of_week = Weekday(day)
                    /\ work_schedule[i].is_active}
    IN  IF rules = {}
        THEN (IF Weekday(day) < 5 THEN <<TimeOfDay(0, 0), TimeOfDay(23, 59)>>
              ELSE <<TimeOfDay(9, 0), TimeOfDay(23, 0)>>)
        ELSE <<work_schedule[MaxOf(rules)].start_time,
               work_schedule[MaxOf(rules)].end_time>>

\* openAt and closeAt of a date (a close of 23:59 is the next midnight).
OpenAt(day) == At(day, 0, 0) + RuleTimes(day)[1]

CloseAt(day) ==
    IF RuleTimes(day)[2] = TimeOfDay(23, 59) THEN At(day + 1, 0, 0)
    ELSE At(day, 0, 0) + RuleTimes(day)[2]

\* The starts of a date on the half-hour grid.
StartsOn(day) == {At(day, h, m) : h \in 0..23, m \in {0, 30}}

\* C27: for a date whose closeAt is not after its openAt, get_day_window
\* returns None, is_slot_available is false for every start of the date
\* (whatever the duration and the excluded booking), and get_available_slots
\* returns the empty list: the handler that asked has got it and is done.
C27_NoWindowNoSlots ==
    /\ \A day \in Dates :
          CloseAt(day) <= OpenAt(day)
          => /\ get_day_window(day) = NoWindow
             /\ \A start \in StartsOn(day), duration \in SlotDurations,
                  exclude \in 0..MaxBookings :
                    ~is_slot_available(start, duration, exclude)
             /\ \A duration \in SlotDurations, now \in SlotNows :
                    get_available_slots(day, duration, None, NoLimit, now) = <<>>
    /\ \A p \in Sessions :
          (op[p].kind = "slots" /\ CloseAt(op[p].day) <= OpenAt(op[p].day))
          => /\ pc[p] = "done"
             /\ op[p].window = NoWindow
             /\ op[p].slots = <<>>

\* C27 happens: the slots of a date that closes before it opens and of a
\* date that closes when it opens have been asked for.
C27_Witness ==
    \E p, q \in Sessions :
        /\ op[p].kind = "slots" /\ CloseAt(op[p].day) < OpenAt(op[p].day)
        /\ op[q].kind = "slots" /\ CloseAt(op[q].day) = OpenAt(op[q].day)
        /\ op[p].slots = <<>> /\ op[q].slots = <<>>

\* The active closures 14:00-18:00 of a date.
Afternoon(day) ==
    {k \in DOMAIN blocked_slots :
        /\ blocked_slots[k].is_active
        /\ blocked_slots[k].start_datetime = At(day, 14, 0)
        /\ blocked_slots[k].end_datetime = At(day, 18, 0)}

\* A 60-minute candidate is free but for the closure 14:00-18:00: it is not
\* in the past, a post is free, and no other active closure intersects it.
OtherwiseFree(c, day, now) ==
    /\ c >= now
    /\ CapacityOk(c, 60, None)
    /\ \A k \in DOMAIN blocked_slots \ Afternoon(day) :
          ~(/\ blocked_slots[k].is_active
            /\ blocked_slots[k].start_datetime < c + 60
            /\ c < blocked_slots[k].end_datetime)

\* C28: on a date open from 00:00 to 24:00 with an active closure
\* 14:00-18:00, get_available_slots for 60 minutes returns no start whose
\* hour intersects the closure (none of 14:00, 15:00, 16:00, 17:00), and it
\* returns 13:00 and 18:00 exactly when they are otherwise free.
C28_BlockedAfternoon ==
    [][\A p \in Sessions :
          (/\ op[p].kind # "slots" /\ op'[p].kind = "slots"
           /\ op'[p].duration = 60
           /\ get_day_window(op'[p].day) =
                 [ok |-> TRUE, day_start |-> At(op'[p].day, 0, 0),
                  day_end |-> At(op'[p].day + 1, 0, 0)]
           /\ Afternoon(op'[p].day) # {})
          => LET day == op'[p].day
                 slots == {op'[p].slots[i] : i \in DOMAIN op'[p].slots}
             IN  /\ \A c \in slots : c + 60 <= At(day, 14, 0) \/ c >= At(day, 18, 0)
                 /\ \A h \in 14..17 : At(day, h, 0) \notin slots
                 /\ \A c \in {At(day, 13, 0), At(day, 18, 0)} :
                       c \in slots <=> OtherwiseFree(c, day, op'[p].now)]_vars

\* C28 happens: with the closure in force and a booking at 13:00 on one of
\* two posts, the list for 60 minutes holds 13:00 and 18:00 and not 15:00.
C28_Witness ==
    /\ Afternoon(1) # {}
    /\ max_posts = 2
    /\ Len(bookings) = 1
    /\ \E p \in Sessions :
          /\ op[p].kind = "slots" /\ op[p].day = 1 /\ op[p].duration = 60
          /\ \E i, j \in DOMAIN op[p].slots :
                op[p].slots[i] = At(1, 13, 0) /\ op[p].slots[j] = At(1, 18, 0)
          /\ \A i \in DOMAIN op[p].slots : op[p].slots[i] # At(1, 15, 0)

\* n hundredths is x ten-thousandths rounded to two decimals with a tie going
\* up: n - 1/2 <= x / 100 < n + 1/2.
HalfUp(n, x) == 100 * n - 50 <= x /\ x < 100 * n + 50

\* C29: calculate_price(base, multiplier) is the exact product rounded to two
\* decimals with a tie going up (3500.00 x 1.20 = 4200.00, 0.03 x 1.50 =
\* 0.045 gives 0.05), and the final price of the row create_booking commits
\* is that of the service's base price and the car type's multiplier it was
\* given.
C29_PriceRoundsHalfUp ==
    /\ [](/\ calculate_price(350000, 120) = 420000
          /\ \A b \in BasePrices \cup
                      {services[i].base_price : i \in DOMAIN services},
               m \in Multipliers :
                HalfUp(calculate_price(b, m), b * m))
    /\ [][\A p \in Sessions :
             (pc[p] = "cb_commit" /\ pc'[p] = "done")
             => HalfUp(bookings'[Len(bookings')].final_price,
                       op[p].service.base_price
                       * op[p].car_type.price_multiplier)]_vars

\* C29 happens: a booking of the service at 0.03 for the car type at 1.50
\* (0.045 exactly) has been made at 0.05.
C29_Witness ==
    \E p \in Created :
        /\ op[p].service.base_price = 3
        /\ op[p].car_type.price_multiplier = 150
        /\ bookings[op[p].bid].final_price = 5

\* C30: no step changes the duration or the base price of a service that a
\* booking references.
C30_ReferencedServiceFrozen ==
    [][\A i \in DOMAIN services :
          (\E b \in DOMAIN bookings : bookings[b].service_id = i)
          => /\ services'[i].duration_minutes = services[i].duration_minutes
             /\ services'[i].base_price = services[i].base_price]_vars

\* C31: with max_posts = 1, a move_booking of a Confirmed booking to an
\* interval that is inside the working window, meets no active block and
\* intersects no Confirmed booking but the moved one (which it does
\* intersect) passes the availability test; its post assignment, when no
\* other Confirmed booking intersects the interval then, returns post 1; and
\* its commit leaves the booking on post 1.
C31_MoveExcludesItself ==
    [][\A p \in Sessions :
          max_posts = 1 =>
            /\ (/\ pc[p] = "idle" /\ op'[p].kind = "move"
                /\ bookings[op'[p].bid].status = CONFIRMED
                /\ WindowAndBlocksOk(op'[p].start, op'[p].duration)
                /\ {i \in DOMAIN bookings :
                       OverlapsBooking(bookings[i], op'[p].start,
                                       op'[p].start + op'[p].duration)}
                      = {op'[p].bid})
               => pc'[p] = "mv_assign"
            /\ (/\ pc[p] = "mv_assign" /\ pc'[p] # "mv_assign"
                /\ {i \in DOMAIN bookings :
                       OverlapsBooking(bookings[i], op[p].start,
                                       op[p].start + op[p].duration)}
                      \subseteq {op[p].bid})
               => pc'[p] = "mv_commit" /\ op'[p].post = 1
            /\ (pc[p] = "mv_commit" /\ pc'[p] = "done")
               => bookings'[op[p].bid].post_id = 1]_vars

\* C31 happens: with one post the booking of 10:00-11:00 has been moved to
\* 10:30-11:30 and is Confirmed on post 1.
C31_Witness ==
    /\ max_posts = 1
    /\ \E p \in Sessions :
          /\ op[p].kind = "move" /\ pc[p] = "done" /\ op[p].start = At(1, 10, 30)
          /\ bookings[op[p].bid] =
                [NewBooking(ClientId, 1, 1, At(1, 10, 0), Services[1], CarTypes[1])
                    EXCEPT !.booking_start = At(1, 10, 30),
                           !.booking_end = At(1, 11, 30)]

\* The bookings due for a threshold at a clock reading: Confirmed, the flag
\* of the threshold false, the start in [now + lo, now + hi).
Due(now, lo, hi, reminder_field) ==
    {b \in DOMAIN bookings :
        /\ bookings[b].status = CONFIRMED
        /\ ~bookings[b][reminder_field]
        /\ now + lo <= bookings[b].booking_start
        /\ bookings[b].booking_start < now + hi}

\* One more reminder counted for the bookings of S and for no other.
CountedFor(before, after, S) ==
    \A b \in 1..MaxBookings :
        after[b] = IF b \in S THEN before[b] + 1 ELSE before[b]

\* C32: a run of process_reminders that reads the clock as now selects for
\* the 24-hour reminder exactly the bookings that are, at its query,
\* Confirmed with reminder_24h_sent false and a start in
\* [now + 23h50m, now + 24h10m), and for the 2-hour reminder exactly those
\* that are, at its query, Confirmed with reminder_2h_sent false and a start
\* in [now + 1h50m, now + 2h10m); a reminder goes out for the selected
\* bookings and no other, and the commit sets the flag of a threshold on
\* exactly the selected bookings whose send returned, leaving every other
\* flag and column as it was.
C32_SweepSelectsExactly ==
    [][/\ (sweep.pc # "send_24h" /\ sweep'.pc = "send_24h")
          => sweep'.selected = Due(sweep'.now, 23 * 60 + 50, 24 * 60 + 10,
                                   "reminder_24h_sent")
       /\ (sweep.pc = "send_24h" /\ sweep'.pc # "send_24h")
          => /\ sweep'.failed_24h \subseteq sweep.selected
             /\ sweep'.marked_24h = sweep.selected \ sweep'.failed_24h
             /\ CountedFor(sweep.delivered_24h, sweep'.delivered_24h,
                           sweep'.marked_24h)
             /\ sweep'.delivered_2h = sweep.delivered_2h
       /\ (sweep.pc = "window_2h" /\ sweep'.pc # "window_2h")
          => sweep'.selected = Due(sweep.now, 60 + 50, 2 * 60 + 10,
                                   "reminder_2h_sent")
       /\ (sweep.pc = "send_2h" /\ sweep'.pc # "send_2h")
          => /\ sweep'.failed_2h \subseteq sweep.selected
             /\ sweep'.marked_2h = sweep.selected \ sweep'.failed_2h
             /\ CountedFor(sweep.delivered_2h, sweep'.delivered_2h,
                           sweep'.marked_2h)
             /\ sweep'.delivered_24h = sweep.delivered_24h
       /\ (sweep.pc = "commit" /\ sweep'.pc # "commit")
          => \A b \in DOMAIN bookings :
                bookings'[b] =
                   [bookings[b] EXCEPT
                       !.reminder_24h_sent =
                           IF b \in sweep.marked_24h THEN TRUE ELSE @,
                       !.reminder_2h_sent =
                           IF b \in sweep.marked_2h THEN TRUE ELSE @]
       /\ (sweep.pc \notin {"send_24h", "send_2h"})
          => /\ sweep'.delivered_24h = sweep.delivered_24h
             /\ sweep'.delivered_2h = sweep.delivered_2h]_vars

\* C32 happens: the run at 09:50 of the day before, whose 24-hour window
\* ends at 10:00, left the booking of 10:00 alone, and the run at 10:10,
\* whose window begins at 10:00, sent its reminder and flagged it.
C32_Witness ==
    /\ sweep.pc = "idle"
    /\ sweep.runs = {At(0, 9, 50), At(0, 10, 10)}
    /\ \E b \in DOMAIN bookings :
          /\ bookings[b].booking_start = At(1, 10, 0)
          /\ sweep.first_run[b] = At(0, 9, 50)
          /\ sweep.delivered_24h[b] = 1
          /\ bookings[b].reminder_24h_sent
          /\ ~bookings[b].reminder_2h_sent

\* The starts the claim lists for a date: on an exact hour, not before the
\* opening, ending by the close, not before now, and available.
Candidates(day, duration, exclude, now) ==
    {c \in {At(day, h, 0) : h \in 0..23} :
        /\ c >= OpenAt(day)
        /\ c + duration <= CloseAt(day)
        /\ c >= now
        /\ is_slot_available(c, duration, exclude)}

\* The elements of a set of instants in chronological order.
RECURSIVE Chronological(_)
Chronological(S) ==
    IF S = {} THEN <<>>
    ELSE LET first == CHOOSE x \in S : \A y \in S : x <= y
         IN  <<first>> \o Chronological(S \ {first})

\* The first limit elements of a list; the whole list when no limit is given.
FirstOf(limit, list) ==
    IF limit = NoLimit \/ limit >= Len(list) THEN list
    ELSE SubSeq(list, 1, limit)

\* The limits a caller may give: none, 0, 1 and 2.
SlotLimits == {NoLimit, 0, 1, 2}

ClosesAt2359(day) == ~NoRule(day) /\ RuleTimes(day)[2] = TimeOfDay(23, 59)

\* C34: for a date whose active rule closes at 23:59, get_day_window returns
\* the opening of the rule and 00:00 of the next day as the close; a start
\* not before the opening whose interval ends at that midnight passes the
\* window test of is_slot_available (it is available unless a block or the
\* capacity says otherwise) and one whose interval ends after midnight is
\* not available; and the slot list a handler got for such a date was cut at
\* midnight: with 60 minutes it holds 23:00, with 90 minutes nothing after
\* 22:00.
C34_CloseAtMidnight ==
    /\ \A day \in Dates :
          ClosesAt2359(day)
          => /\ get_day_window(day) =
                   [ok |-> TRUE, day_start |-> OpenAt(day),
                    day_end |-> At(day + 1, 0, 0)]
             /\ \A start \in StartsOn(day), duration \in SlotDurations \cup {30} :
                   /\ (start >= OpenAt(day) /\ start + duration = At(day + 1, 0, 0))
                      => (is_slot_available(start, duration, None)
                          <=> /\ get_active_blocks(start, start + duration) = {}
                              /\ CapacityOk(start, duration, None))
                   /\ start + duration > At(day + 1, 0, 0)
                      => ~is_slot_available(start, duration, None)
    /\ \A p \in Sessions :
          (op[p].kind = "slots" /\ ClosesAt2359(op[p].day))
          => /\ op[p].window.day_end = At(op[p].day + 1, 0, 0)
             /\ \A i \in DOMAIN op[p].slots :
                   op[p].slots[i] + op[p].duration <= At(op[p].day + 1, 0, 0)
             /\ (op[p].duration = 60 /\ OpenAt(op[p].day) <= At(op[p].day, 23, 0))
                => \E i \in DOMAIN op[p].slots :
                      op[p].slots[i] = At(op[p].day, 23, 0)

\* C34 happens: under the seeded rule of Tuesday (00:00-23:59) the list for
\* 60 minutes ends with 23:00 and the list for 90 minutes ends with 22:00.
C34_Witness ==
    /\ work_schedule = DefaultSchedule
    /\ \E p, q \in Sessions :
          /\ op[p].kind = "slots" /\ op[p].day = 1 /\ op[p].duration = 60
          /\ op[p].slots # <<>>
          /\ op[p].slots[Len(op[p].slots)] = At(1, 23, 0)
          /\ op[q].kind = "slots" /\ op[q].day = 1 /\ op[q].duration = 90
          /\ op[q].slots # <<>>
          /\ op[q].slots[Len(op[q].slots)] = At(1, 22, 0)

\* C35: the end and the final price of a booking are those computed from
\* the service and the car type its reservation was given, whatever the
\* catalogue holds now; a step that edits a service's duration or base
\* price or a car type's multiplier leaves the bookings table as it was, and
\* no step changes the end or the final price of an existing booking.
C35_EndAndPriceFrozen ==
    /\ [](\A p \in Created :
             /\ bookings[op[p].bid].booking_end =
                   op[p].start + op[p].service.duration_minutes
             /\ bookings[op[p].bid].final_price =
                   calculate_price(op[p].service.base_price,
                                   op[p].car_type.price_multiplier))
    /\ [][/\ (services' # services \/ car_types' # car_types)
             => bookings' = bookings
          /\ \A b \in DOMAIN bookings :
                /\ bookings'[b].booking_end = bookings[b].booking_end
                /\ bookings'[b].final_price = bookings[b].final_price]_vars

\* C35 happens: a booking of 60 minutes exists, and the duration of its
\* service is now 90 minutes.
C35_Witness ==
    \E p \in Created :
        /\ op[p].service.duration_minutes = 60
        /\ services[bookings[op[p].bid].service_id].duration_minutes = 90
        /\ bookings[op[p].bid].booking_end = bookings[op[p].bid].booking_start + 60

\* A run of process_reminders whose window [now + lo, now + hi) held the
\* instant t has begun.
RunCovered(t, lo, hi) ==
    \E now \in sweep.runs : now + lo <= t /\ t < now + hi

\* C36: a booking's reminder flag of a threshold is true only if a reminder
\* of that threshold went out for the start the booking has now; so the
\* window of some run contained that start.
C36_FlagIsForCurrentStart ==
    \A b \in DOMAIN bookings :
        /\ bookings[b].reminder_24h_sent
              => /\ sweep.delivered_24h[b] >= 1
                 /\ RunCovered(bookings[b].booking_start, 23 * 60 + 50,
                               24 * 60 + 10)
        /\ bookings[b].reminder_2h_sent
              => /\ sweep.delivered_2h[b] >= 1
                 /\ RunCovered(bookings[b].booking_start, 60 + 50, 2 * 60 + 10)

\* The Confirmed bookings, other than `exclude`, whose interval intersects
\* [start, end).
ConfirmedOn(start, end, exclude) ==
    {i \in DOMAIN bookings \ {exclude} :
        /\ bookings[i].status = CONFIRMED
        /\ bookings[i].booking_start < end
        /\ start < bookings[i].booking_end}

\* The smallest post that no booking of S is on; None when there is none.
FreePost(S) ==
    LET free == (1..max_posts) \ {bookings[i].post_id : i \in S}
    IN  IF free = {} THEN None ELSE CHOOSE x \in free : \A y \in free : x <= y

\* C37: once a cancel has committed, the cancelled booking is counted
\* nowhere.  is_slot_available answers as it would if the row were not in
\* the table; the commit of the cancel takes the booking out of the rows
\* intersecting its own interval; the advisory check, the locked count and
\* the post assignment of create_booking and of move_booking see Confirmed
\* rows only, so a reserve or a move onto an interval that only cancelled
\* bookings intersect is accepted and is given post 1.
C37_CancelFreesCapacity ==
    /\ [](\A b \in DOMAIN bookings :
             bookings[b].status = CANCELLED
             => \A start \in Starts, exclude \in 0..MaxBookings :
                   /\ b \notin get_overlapping_bookings(start, start + 60, exclude)
                   /\ is_slot_available(start, 60, exclude)
                         <=> /\ WindowAndBlocksOk(start, 60)
                             /\ Cardinality(ConfirmedOn(start, start + 60, exclude)
                                            \ {b}) < max_posts)
    /\ [][\A p \in Sessions :
             LET start == op[p].start
                 end == op[p].start + op[p].duration
             IN  /\ (pc[p] = "cn_commit" /\ pc'[p] # "cn_commit")
                    => op[p].bid \notin
                          {i \in DOMAIN bookings' :
                              OverlapsBooking(bookings'[i],
                                              bookings[op[p].bid].booking_start,
                                              bookings[op[p].bid].booking_end)}
                 /\ (pc[p] = "cb_isa" /\ pc'[p] # "cb_isa")
                    => (pc'[p] = "cb_lock"
                        <=> /\ WindowAndBlocksOk(start, op[p].duration)
                            /\ Cardinality(ConfirmedOn(start, end, None))
                                  < max_posts)
                 /\ (pc[p] = "cb_lock" /\ pc'[p] # "cb_lock")
                    => op'[p].n = Cardinality(ConfirmedOn(start, end, None))
                 /\ (pc[p] = "cb_assign" /\ pc'[p] # "cb_assign")
                    => op'[p].post = FreePost(ConfirmedOn(start, end, None))
                 /\ (pc[p] = "mv_assign" /\ pc'[p] = "mv_commit")
                    => op'[p].post = FreePost(ConfirmedOn(start, end, op[p].bid))
                 /\ (pc[p] = "mv_assign" /\ pc'[p] = "failed")
                    => FreePost(ConfirmedOn(start, end, op[p].bid)) = None]_vars
       /\ [][\A c \in denied' \ denied :
                ~(/\ WindowAndBlocksOk(c[1], c[2])
                  /\ Cardinality(ConfirmedOn(c[1], c[1] + c[2], None))
                        < max_posts)]_vars

\* C37 happens: with one post, the booking of 10:00-11:00 was cancelled and
\* a reserve of 10:30-11:30 made afterwards is Confirmed on post 1.
C37_Witness ==
    /\ max_posts = 1
    /\ \E p, q \in Sessions :
          /\ op[p].kind \in CancelKinds /\ pc[p] = "done" /\ op[p].bid = 1
          /\ q \in Created /\ op[q].start = At(1, 10, 30)
          /\ bookings[1].status = CANCELLED
          /\ bookings[1].booking_start = At(1, 10, 0)
          /\ bookings[op[q].bid].status = CONFIRMED
          /\ bookings[op[q].bid].post_id = 1

\* The active closures whose interval intersects [start, end).
ActiveBlocksOn(start, end) ==
    {k \in DOMAIN blocked_slots :
        /\ blocked_slots[k].is_active
        /\ blocked_slots[k].start_datetime < end
        /\ start < blocked_slots[k].end_datetime}

\* C38: a step that adds a row to blocked_slots adds one active row and
\* changes no other row of any table, so every booking keeps its status,
\* interval and post, a Confirmed booking inside the closure included; and a
\* reserve or a move that starts when an active closure intersects its
\* target interval fails: confirm_booking starts no create_booking call,
\* create_booking raises at its availability test, move_booking raises and
\* leaves the bookings as they were.
C38_ClosureLeavesBookings ==
    /\ [][Len(blocked_slots') # Len(blocked_slots)
             => /\ Len(blocked_slots') = Len(blocked_slots) + 1
                /\ \A k \in DOMAIN blocked_slots :
                      blocked_slots'[k] = blocked_slots[k]
                /\ blocked_slots'[Len(blocked_slots')].is_active
                /\ bookings' = bookings
                /\ <<max_posts', services', car_types', work_schedule',
                     booking_admin_notes'>>
                      = <<max_posts, services, car_types, work_schedule,
                          booking_admin_notes>>]_vars
    /\ [][\A p \in Sessions :
             /\ (pc[p] = "idle" /\ op'[p].kind = "create")
                => ActiveBlocksOn(op'[p].start, op'[p].start + op'[p].duration)
                      = {}
             /\ (/\ pc[p] = "cb_isa" /\ pc'[p] # "cb_isa"
                 /\ ActiveBlocksOn(op[p].start, op[p].start + op[p].duration)
                       # {})
                => pc'[p] = "failed" /\ bookings' = bookings
             /\ (/\ pc[p] = "idle" /\ op'[p].kind = "move"
                 /\ ActiveBlocksOn(op'[p].start, op'[p].start + op'[p].duration)
                       # {})
                => pc'[p] = "failed" /\ bookings' = bookings]_vars

\* C38 happens: 10:00-11:00 is closed, the booking of 10:00-11:00 made
\* before is still Confirmed on its post, and a move of it to 10:30 has
\* failed.
C38_Witness ==
    /\ ActiveBlocksOn(At(1, 10, 0), At(1, 11, 0)) # {}
    /\ bookings[1] = NewBooking(ClientId, 1, 1, At(1, 10, 0), Services[1],
                                CarTypes[1])
    /\ \E p \in Sessions :
          /\ op[p].kind = "move" /\ pc[p] = "failed"
          /\ op[p].bid = 1 /\ op[p].start = At(1, 10, 30)

\* C39: reopen_slot on the id of a row returns True and leaves that row
\* inactive and every other row as it was, and a second call leaves the
\* table as the first did; on an id of no row it returns False and leaves
\* the table as it was.  An inactive block is returned by no
\* get_active_blocks query and is_slot_available answers from the active
\* blocks alone.  No step removes a block or changes one otherwise than from
\* active to inactive, and such a step changes no other table.
C39_BlocksOnlyDeactivate ==
    /\ [](\A block_id \in BlockIds :
             LET once == reopen_slot_rows(blocked_slots, block_id)
             IN  IF block_id \in DOMAIN blocked_slots
                 THEN /\ reopen_slot_returns(blocked_slots, block_id)
                      /\ DOMAIN once = DOMAIN blocked_slots
                      /\ ~once[block_id].is_active
                      /\ \A k \in DOMAIN blocked_slots :
                            /\ once[k].start_datetime = blocked_slots[k].start_datetime
                            /\ once[k].end_datetime = blocked_slots[k].end_datetime
                            /\ k # block_id => once[k] = blocked_slots[k]
                      /\ reopen_slot_returns(once, block_id)
                      /\ reopen_slot_rows(once, block_id) = once
                 ELSE /\ ~reopen_slot_returns(blocked_slots, block_id)
                      /\ once = blocked_slots)
    /\ [](\A start \in Starts :
             /\ \A k \in get_active_blocks(start, start + 60) :
                   blocked_slots[k].is_active
             /\ is_slot_available(start, 60, None)
                   <=> /\ get_day_window(DateOf(start)).ok
                       /\ start >= get_day_window(DateOf(start)).day_start
                       /\ start + 60 <= get_day_window(DateOf(start)).day_end
                       /\ ActiveBlocksOn(start, start + 60) = {}
                       /\ CapacityOk(start, 60, None))
    /\ [][/\ \A k \in DOMAIN blocked_slots :
                /\ k \in DOMAIN blocked_slots'
                /\ \/ blocked_slots'[k] = blocked_slots[k]
                   \/ /\ blocked_slots[k].is_active
                      /\ blocked_slots'[k] =
                            [blocked_slots[k] EXCEPT !.is_active = FALSE]
          /\ (\E k \in DOMAIN blocked_slots :
                 blocked_slots'[k] # blocked_slots[k])
             => /\ Len(blocked_slots') = Len(blocked_slots)
                /\ <<max_posts', services', car_types', work_schedule',
                     bookings', booking_admin_notes'>>
                      = <<max_posts, services, car_types, work_schedule,
                          bookings, booking_admin_notes>>]_vars

\* C39 happens: the closure 11:00-12:00 has been reopened and a reserve of
\* 11:00-12:00 made afterwards is in the table.
C39_Witness ==
    /\ Len(blocked_slots) = 1
    /\ ~blocked_slots[1].is_active
    /\ blocked_slots[1].start_datetime = At(1, 11, 0)
    /\ \E p \in Created :
          /\ op[p].start = At(1, 11, 0)
          /\ bookings[op[p].bid].status = CONFIRMED

\* One active rule for each weekday 0..6 and no other row.
SevenRules(rows) ==
    /\ Len(rows) = 7
    /\ \A dow \in 0..6 :
          \E i \in DOMAIN rows :
             /\ rows[i].day_of_week = dow
             /\ rows[i].is_active
             /\ \A j \in DOMAIN rows : rows[j].day_of_week = dow => j = i

\* C40: a step changes work_schedule only when it has no rows, and then to
\* seven rules, one per weekday, leaving every other table as it was and
\* the window of every date equal to the one get_day_window gave with no
\* rows; a table with rows is left as it is by ensure_default_schedule, so
\* a second call adds nothing.
C40_SeedEqualsFallback ==
    [][/\ work_schedule' # work_schedule
          => /\ work_schedule = <<>>
             /\ SevenRules(work_schedule')
             /\ UNCHANGED <<max_posts, services, car_types, blocked_slots,
                            bookings, booking_admin_notes>>
             /\ \A day \in Dates : get_day_window(day)' = get_day_window(day)
       /\ (ENABLED ensure_default_schedule /\ work_schedule # <<>>)
          => ~(ENABLED (ensure_default_schedule /\ work_schedule' # work_schedule))]_vars

\* C40 happens: the seven rows have been seeded into the empty table and
\* the slots of the Saturday listed afterwards are those of 09:00 to 23:00.
C40_Witness ==
    /\ work_schedule = DefaultSchedule
    /\ \E p \in Sessions :
          /\ op[p].kind = "slots" /\ op[p].day = 5
          /\ op[p].window = [ok |-> TRUE, day_start |-> At(5, 9, 0),
                             day_end |-> At(5, 23, 0)]
          /\ op[p].slots # <<>>

====
